---------------------------- MODULE Spec2Model ----------------------------
(***************************************************************************)
(* A model of create-introspect-mcp: the entity partitioner                *)
(* (scripts/divide_entities.py) and the SQLite store builder               *)
(* (scripts/create_database.py).                                           *)
(*                                                                         *)
(* Conventions.  Python lists are sequences; a Python index i is the       *)
(* sequence index i + 1.  A TEXT value is a sequence of character codes    *)
(* (compared bytewise, as SQLite's BINARY collation does); a nullable      *)
(* column holds None (the empty sequence) or Some(v) (a one-element        *)
(* sequence).                                                              *)
(***************************************************************************)
EXTENDS Integers, Sequences, FiniteSets, TLC

VARIABLES
    \* ---- the partitioner called as a function (divide_entities) ----
    entities,       \* the caller's list E
    num_groups,     \* the caller's num_groups
    rng,            \* the process-wide generator of module random
    groups,         \* what the latest divide_entities(entities, num_groups) returned
    firstGroups,    \* what the first such call returned
    shuffled,       \* the local list `shuffled` of that call when it returned
    ncalls,         \* how many such calls were made (counted up to two)
    touched,        \* whether other code used the generator since the first call
    reordered,      \* another list E' (equal to E, or a permutation of it)
    groupsReordered,\* what divide_entities(E', num_groups) returned
    \* ---- the store and the DatabaseCreator (create_database.py) ----
    disk,           \* the committed contents of the database file
    creator,        \* the DatabaseCreator's module_ids and class_ids
    doc,            \* the json_data handed to create()
    outcome,        \* how the latest create() ended: "none", "ok" or the error raised
    conn,           \* the connection when the latest call ended (for create():
                    \* when its try block ended): the contents it saw (db), the
                    \* statements the call ran (log) and the call's name (call)
    \* ---- the other tools of the repository ----
    stats,          \* what the latest verify_coverage returned
    workflow,       \* the run of create_full_mcp_server.py: its phases and exit
    walker,         \* a ModuleIntrospector and the tree it returned
    dist            \* the builds under dist/ and the latest publish

divVars == <<entities, num_groups, rng, groups, firstGroups, shuffled, ncalls,
             touched, reordered, groupsReordered>>

storeVars == <<disk, creator, doc, outcome, conn>>

toolVars == <<stats, workflow, walker, dist>>

vars == <<divVars, storeVars, toolVars>>

(***************************************************************************)
(* Bounds of the model.                                                    *)
(***************************************************************************)
MaxEntities == 3    \* size of the pool the input lists are drawn from
MaxGroups == 5      \* largest num_groups
MaxRngPos == 2      \* outputs other code may have drawn from the generator

(***************************************************************************)
(* Small helpers.                                                          *)
(***************************************************************************)
Range(s) == {s[i] : i \in DOMAIN s}

Min(a, b) == IF a <= b THEN a ELSE b

Max(a, b) == IF a >= b THEN a ELSE b

IsInjective(s) == \A i, j \in DOMAIN s : s[i] = s[j] => i = j

InjectiveSeqs(S, n) ==
    {s \in UNION {[1..k -> S] : k \in 0..n} : IsInjective(s)}

PermutationsOf(s) ==
    {t \in [1..Len(s) -> Range(s)] : IsInjective(t)}

RECURSIVE SumSeq(_)
SumSeq(s) == IF s = <<>> THEN 0 ELSE Head(s) + SumSeq(Tail(s))

RECURSIVE Concat(_)
Concat(ss) == IF ss = <<>> THEN <<>> ELSE Head(ss) \o Concat(Tail(ss))

(***************************************************************************)
(* Module random: the Mersenne Twister MT19937 behind random.seed,         *)
(* random.getrandbits and random.shuffle.  A generator state is the seed   *)
(* it was last seeded with and the number of 32-bit outputs drawn since.   *)
(* MTHigh8(a) lists the high 8 bits of the first 48 outputs after          *)
(* random.seed(a) (CPython 3); getrandbits(k) is the top k bits of the     *)
(* next output, so 8 bits decide every draw below 256.                     *)
(***************************************************************************)
Seed == 42

OtherSeeds == {0, 1}

MTHigh8(a) ==
    CASE a = 42 ->
           <<163, 28, 6, 189, 70, 62, 57, 35, 188, 26, 173, 189, 228, 139, 22,
             151, 108, 8, 7, 23, 55, 59, 129, 154, 6, 143, 50, 183, 166, 179,
             139, 107, 56, 114, 150, 71, 207, 222, 1, 194, 206, 40, 178, 108,
             87, 71, 39, 55>>
      [] a = 0 ->
           <<216, 98, 194, 227, 107, 10, 66, 247, 130, 124, 103, 235, 200, 212,
             77, 247, 122, 91, 149, 228, 232, 55, 129, 35, 72, 35, 193, 24, 158,
             204, 64, 252, 232, 136, 251, 180, 207, 154, 230, 37, 79, 25, 186,
             18, 230, 217, 175, 84>>
      [] a = 1 ->
           <<34, 145, 216, 205, 195, 16, 65, 30, 126, 194, 115, 120, 166, 97,
             201, 53, 24, 124, 7, 228, 213, 99, 110, 155, 195, 196, 0, 178, 114,
             68, 184, 205, 58, 151, 241, 26, 230, 81, 7, 5, 6, 166, 138, 2, 240,
             225, 97, 175>>

\* The divide_entities call skipping random.seed(42): a plausible slip.
random_seed_skipped(g, a) == g

\* random.seed(a)
random_seed(g, a) == [seed |-> a, pos |-> 0]

\* random.getrandbits(k), 1 <= k <= 8: the value and the generator after it
getrandbits(g, k) ==
    [value |-> MTHigh8(g.seed)[g.pos + 1] \div (2 ^ (8 - k)),
     rng   |-> [g EXCEPT !.pos = @ + 1]]

RECURSIVE bit_length(_)
bit_length(n) == IF n = 0 THEN 0 ELSE 1 + bit_length(n \div 2)

\* Random._randbelow_with_getrandbits(n): draw until the value is below n
RECURSIVE randbelow(_, _)
randbelow(g, n) ==
    LET d == getrandbits(g, bit_length(n))
    IN  IF d.value >= n THEN randbelow(d.rng, n) ELSE d

\* x[i], x[j] = x[j], x[i]   (Python indices)
Swap(x, i, j) == [x EXCEPT ![i + 1] = x[j + 1], ![j + 1] = x[i + 1]]

\* random.shuffle(x): for i in reversed(range(1, len(x))): j = randbelow(i + 1); swap
RECURSIVE shuffle_from(_, _, _)
shuffle_from(x, g, i) ==
    IF i < 1 THEN [list |-> x, rng |-> g]
    ELSE LET d == randbelow(g, i + 1)
         IN  shuffle_from(Swap(x, i, d.value), d.rng, i - 1)

shuffle(x, g) == shuffle_from(x, g, Len(x) - 1)

\* Enough of the listed outputs are left for the shuffles of one call: the lists
\* of the model need at most 16 draws.
HasWords(g) == g.pos + 16 <= Len(MTHigh8(g.seed))

(***************************************************************************)
(* divide_entities (scripts/divide_entities.py, lines 38-63).              *)
(***************************************************************************)
\* A copy sorted by (type, id) before shuffling: what would make the result
\* independent of the caller's order.
RECURSIVE SortedInsert(_, _)
SortedInsert(s, e) ==
    IF s = <<>> THEN <<e>>
    ELSE IF (e.type = Head(s).type /\ e.id <= Head(s).id)
              \/ (e.type = "CLASS" /\ Head(s).type = "FUNCTION")
         THEN <<e>> \o s
         ELSE <<Head(s)>> \o SortedInsert(Tail(s), e)

RECURSIVE list_copy_sorted(_)
list_copy_sorted(x) ==
    IF x = <<>> THEN <<>>
    ELSE SortedInsert(list_copy_sorted(Tail(x)), Head(x))

\* entities.copy(): a new list with the same elements in the same order
list_copy(x) == x

\* s[a:b] of Python: indices clamped to the list
py_slice_reversed(s, a, b) ==
    LET lo == Min(Max(a, 0), Len(s))
        hi == Min(Max(b, 0), Len(s))
    IN  [k \in 1..Max(hi - lo, 0) |-> s[hi + 1 - k]]

py_slice(s, a, b) ==
    LET lo == Min(Max(a, 0), Len(s))
        hi == Min(Max(b, 0), Len(s))
    IN  [k \in 1..Max(hi - lo, 0) |-> s[lo + k]]

\* base_size = total // num_groups
base_size_at_least_one(total, n) == Max(1, total \div n)

\* (Python's // rounds to minus infinity: for a negative num_groups it is minus
\* the quotient rounded up)
base_size_of(total, n) ==
    IF n > 0 THEN total \div n ELSE 0 - ((total + (0 - n) - 1) \div (0 - n))

\* remainder = total % num_groups
\* (Python's % has the sign of num_groups)
remainder_of(total, n) ==
    IF n > 0 THEN total % n ELSE total - n * base_size_of(total, n)

\* group_size = base_size + (1 if i < remainder else 0)
group_size_no_extra(i, base_size, remainder) == base_size

group_size_front_loaded(i, base_size, remainder) ==
    base_size + (IF i = 0 THEN remainder ELSE 0)

group_size(i, base_size, remainder) ==
    base_size + (IF i < remainder THEN 1 ELSE 0)

\* the loop of lines 53-61, from iteration i on
RECURSIVE slice_groups(_, _, _, _, _, _, _)
slice_groups(xs, n, base_size, remainder, i, start_idx, acc) ==
    IF i >= n THEN acc
    ELSE LET end_idx == start_idx + group_size(i, base_size, remainder)
             group   == py_slice(xs, start_idx, end_idx)
         IN  slice_groups(xs, n, base_size, remainder, i + 1, end_idx,
                          Append(acc, group))

\* the shuffled copy of lines 41-43 and the generator after it
shuffled_copy(x, g) == shuffle(list_copy(x), random_seed(g, Seed))

\* divide_entities(entities, num_groups) run with the generator in state g:
\* the groups returned, the local list shuffled, and the generator left behind;
\* num_groups = 0 raises ZeroDivisionError at line 47, after the shuffle
divide_entities(x, n, g) ==
    LET sh        == shuffled_copy(x, g)
        total     == Len(sh.list)
        base_size == base_size_of(total, n)
        remainder == remainder_of(total, n)
    IN  IF n = 0
        THEN [groups |-> <<>>, shuffled |-> sh.list, rng |-> sh.rng,
              raised |-> "ZeroDivisionError"]
        ELSE [groups   |-> slice_groups(sh.list, n, base_size, remainder, 0, 0,
                                        <<>>),
              shuffled |-> sh.list,
              rng      |-> sh.rng,
              raised   |-> "none"]

(***************************************************************************)
(* The store: an SQLite database with the schema of create_schema          *)
(* (scripts/create_database.py, lines 44-216).  A database state holds the *)
(* rows of each table, the entries of the two FTS5 indexes and the         *)
(* AUTOINCREMENT counters (sqlite_sequence).                               *)
(***************************************************************************)
None == <<>>

Some(v) == <<v>>

\* the other tools have not run
ToolsIdle ==
    /\ stats = None
    /\ workflow = None
    /\ walker = None
    /\ dist = None

\* d[k] = v on a Python dict
DictSet(d, k, v) == [x \in DOMAIN d \cup {k} |-> IF x = k THEN v ELSE d[x]]

\* no connection was opened yet
NoConn == [db |-> <<>>, log |-> <<>>, call |-> "none"]

EmptyDict == [x \in {} |-> 0]

\* a database file that does not exist
NoFile ==
    [exists |-> FALSE, schema |-> {},
     modules |-> {}, classes |-> {}, class_inheritance |-> {}, functions |-> {},
     parameters |-> {}, classes_fts |-> {}, functions_fts |-> {},
     examples |-> {},
     seq |-> [modules |-> 0, classes |-> 0, functions |-> 0, parameters |-> 0,
              examples |-> 0]]

\* the objects create_schema creates, in the order of its statements: tables
\* (lines 52-126), indexes (131-138), FTS5 tables (143-162), triggers (168-213)
SchemaStatements ==
    <<"modules", "classes", "class_inheritance", "functions", "parameters",
      "examples",
      "idx_classes_module", "idx_classes_name", "idx_functions_class",
      "idx_functions_module", "idx_functions_name", "idx_parameters_function",
      "classes_fts", "functions_fts",
      "classes_ai", "classes_ad", "classes_au",
      "functions_ai", "functions_ad", "functions_au">>

\* a CREATE that makes the tables anew: a plausible slip
sql_create_anew(D, object) ==
    [NoFile EXCEPT !.exists = TRUE, !.schema = D.schema \cup {object},
                   !.seq = D.seq]

\* CREATE TABLE / INDEX / VIRTUAL TABLE / TRIGGER IF NOT EXISTS object: an
\* object that exists is left as it is, and so are the rows
sql_create_if_not_exists(D, object) ==
    [D EXCEPT !.exists = TRUE, !.schema = @ \cup {object}]

\* all statements of create_schema
create_schema_ddl(D) ==
    [D EXCEPT !.exists = TRUE, !.schema = @ \cup Range(SchemaStatements)]

\* what classes_fts indexes of a classes row (lines 144-150)
ClassFtsEntry(r) ==
    [rowid |-> r.id, name |-> r.name,
     full_qualified_name |-> r.full_qualified_name, docstring |-> r.docstring]

\* what functions_fts indexes of a functions row (lines 154-161)
FunctionFtsEntry(r) ==
    [rowid |-> r.id, name |-> r.name,
     full_qualified_name |-> r.full_qualified_name, docstring |-> r.docstring,
     signature_string |-> r.signature_string]

\* trigger classes_ai (lines 168-173)
classes_ai(D, new) == [D EXCEPT !.classes_fts = @ \cup {ClassFtsEntry(new)}]

\* trigger classes_ad (lines 175-180): the FTS5 'delete' command with the old values
classes_ad(D, old) == [D EXCEPT !.classes_fts = @ \ {ClassFtsEntry(old)}]

\* an update trigger that only adds the new values: a plausible slip
classes_au_insert_only(D, old, new) == classes_ai(D, new)

\* trigger classes_au (lines 182-189)
classes_au(D, old, new) == classes_ai(classes_ad(D, old), new)

\* trigger functions_ai (lines 192-197)
functions_ai(D, new) == [D EXCEPT !.functions_fts = @ \cup {FunctionFtsEntry(new)}]

\* trigger functions_ad (lines 199-204)
functions_ad(D, old) == [D EXCEPT !.functions_fts = @ \ {FunctionFtsEntry(old)}]

\* trigger functions_au (lines 206-213)
functions_au(D, old, new) == functions_ai(functions_ad(D, old), new)

\* Each statement returns [ok, db, lastrowid]: ok is FALSE, and db unchanged, when
\* a constraint of the schema rejects the statement (sqlite3.IntegrityError).
\* fk is the connection's PRAGMA foreign_keys.
Rejected(D) == [ok |-> FALSE, db |-> D, lastrowid |-> 0]

\* INSERT INTO modules (name, docstring): name is UNIQUE (lines 52-58)
sql_insert_module(D, name, docstring) ==
    IF \E r \in D.modules : r.name = name THEN Rejected(D)
    ELSE LET id == D.seq.modules + 1
         IN  [ok |-> TRUE, lastrowid |-> id,
              db |-> [D EXCEPT !.seq.modules = id,
                               !.modules = @ \cup {[id |-> id, name |-> name,
                                                    docstring |-> docstring]}]]

\* INSERT INTO classes (...): full_qualified_name is UNIQUE, module_id references
\* modules(id) (lines 61-70); then trigger classes_ai
sql_insert_class(D, fk, name, fqn, docstring, module_id) ==
    IF \/ \E r \in D.classes : r.full_qualified_name = fqn
       \/ fk /\ ~ \E m \in D.modules : m.id = module_id
    THEN Rejected(D)
    ELSE LET id  == D.seq.classes + 1
             new == [id |-> id, name |-> name, full_qualified_name |-> fqn,
                     docstring |-> docstring, module_id |-> module_id]
         IN  [ok |-> TRUE, lastrowid |-> id,
              db |-> classes_ai([D EXCEPT !.seq.classes = id,
                                          !.classes = @ \cup {new}], new)]

\* the rowid SQLite gives the next row of a table without AUTOINCREMENT: one
\* more than the largest in the table
NextRowid(rows) ==
    IF rows = {} THEN 1
    ELSE 1 + (CHOOSE m \in {e.rowid : e \in rows} :
                 \A e \in rows : e.rowid <= m)

\* a class_inheritance table without its primary key: a plausible slip
sql_insert_inheritance_no_key(D, fk, class_id, base) ==
    IF fk /\ ~ \E c \in D.classes : c.id = class_id
    THEN Rejected(D)
    ELSE LET rowid == NextRowid(D.class_inheritance)
         IN  [ok |-> TRUE, lastrowid |-> rowid,
              db |-> [D EXCEPT !.class_inheritance =
                         @ \cup {[rowid |-> rowid, class_id |-> class_id,
                                  base_class_name |-> base]}]]

\* INSERT INTO class_inheritance: PRIMARY KEY (class_id, base_class_name),
\* class_id references classes(id) (lines 73-80)
sql_insert_inheritance(D, fk, class_id, base) ==
    IF \/ \E e \in D.class_inheritance :
             e.class_id = class_id /\ e.base_class_name = base
       \/ fk /\ ~ \E c \in D.classes : c.id = class_id
    THEN Rejected(D)
    ELSE LET rowid == NextRowid(D.class_inheritance)
         IN  [ok |-> TRUE, lastrowid |-> rowid,
              db |-> [D EXCEPT !.class_inheritance =
                         @ \cup {[rowid |-> rowid, class_id |-> class_id,
                                  base_class_name |-> base]}]]

\* INSERT INTO functions (...): full_qualified_name is UNIQUE, class_id and
\* module_id are foreign keys (lines 83-99); then trigger functions_ai
sql_insert_function(D, fk, row) ==
    IF \/ \E r \in D.functions : r.full_qualified_name = row.full_qualified_name
       \/ fk /\ ~ \E m \in D.modules : m.id = row.module_id
       \/ fk /\ row.class_id # None /\ ~ \E c \in D.classes : Some(c.id) = row.class_id
    THEN Rejected(D)
    ELSE LET id  == D.seq.functions + 1
             new == [id |-> id] @@ row
         IN  [ok |-> TRUE, lastrowid |-> id,
              db |-> functions_ai([D EXCEPT !.seq.functions = id,
                                            !.functions = @ \cup {new}], new)]

\* INSERT INTO parameters (...): function_id references functions(id) (lines 102-113)
sql_insert_parameter(D, fk, row) ==
    IF fk /\ ~ \E f \in D.functions : f.id = row.function_id THEN Rejected(D)
    ELSE LET id == D.seq.parameters + 1
         IN  [ok |-> TRUE, lastrowid |-> id,
              db |-> [D EXCEPT !.seq.parameters = id,
                               !.parameters = @ \cup {[id |-> id] @@ row}]]

\* INSERT INTO examples (code, description, function_id, class_id): code is NOT
\* NULL, function_id and class_id are nullable foreign keys (lines 116-126)
sql_insert_example(D, fk, code, function_id, class_id) ==
    IF \/ code = None
       \/ fk /\ function_id # None
             /\ ~ \E f \in D.functions : Some(f.id) = function_id
       \/ fk /\ class_id # None /\ ~ \E c \in D.classes : Some(c.id) = class_id
    THEN Rejected(D)
    ELSE LET id == D.seq.examples + 1
         IN  [ok |-> TRUE, lastrowid |-> id,
              db |-> [D EXCEPT !.seq.examples = id,
                               !.examples = @ \cup
                                   {[id |-> id, code |-> code,
                                     function_id |-> function_id,
                                     class_id |-> class_id]}]]

\* UPDATE classes SET name, full_qualified_name, docstring WHERE id: the UNIQUE
\* constraint, then trigger classes_au
sql_update_class(D, id, name, fqn, docstring) ==
    IF \E r \in D.classes : r.id # id /\ r.full_qualified_name = fqn
    THEN Rejected(D)
    ELSE LET old == CHOOSE r \in D.classes : r.id = id
             new == [old EXCEPT !.name = name, !.full_qualified_name = fqn,
                                !.docstring = docstring]
         IN  [ok |-> TRUE, lastrowid |-> 0,
              db |-> classes_au([D EXCEPT !.classes = (@ \ {old}) \cup {new}],
                                old, new)]

\* DELETE FROM classes WHERE id: rejected while a row references the class and
\* foreign keys are enforced; then trigger classes_ad
sql_delete_class(D, fk, id) ==
    IF fk /\ (\/ \E f \in D.functions : f.class_id = Some(id)
              \/ \E e \in D.class_inheritance : e.class_id = id)
    THEN Rejected(D)
    ELSE LET old == CHOOSE r \in D.classes : r.id = id
         IN  [ok |-> TRUE, lastrowid |-> 0,
              db |-> classes_ad([D EXCEPT !.classes = @ \ {old}], old)]

\* INSERT OR REPLACE INTO classes: the row that holds the full_qualified_name is
\* removed to make room.  SQLite fires delete triggers for such a row only under
\* PRAGMA recursive_triggers, which no code of the repository sets (create sets
\* foreign_keys only, line 407), so classes_ad does not run for it.
sql_replace_class(D, name, fqn, docstring, module_id) ==
    LET gone == {r \in D.classes : r.full_qualified_name = fqn}
    IN  sql_insert_class([D EXCEPT !.classes = @ \ gone], FALSE, name, fqn,
                         docstring, module_id)

\* UPDATE functions SET name, docstring, signature_string WHERE id; then trigger
\* functions_au
sql_update_function(D, id, name, docstring, signature_string) ==
    LET old == CHOOSE r \in D.functions : r.id = id
        new == [old EXCEPT !.name = name, !.docstring = docstring,
                           !.signature_string = signature_string]
    IN  [ok |-> TRUE, lastrowid |-> 0,
         db |-> functions_au([D EXCEPT !.functions = (@ \ {old}) \cup {new}],
                             old, new)]

\* DELETE FROM functions WHERE id: rejected while a parameter references the
\* function and foreign keys are enforced; then trigger functions_ad
sql_delete_function(D, fk, id) ==
    IF fk /\ \E p \in D.parameters : p.function_id = id
    THEN Rejected(D)
    ELSE LET old == CHOOSE r \in D.functions : r.id = id
         IN  [ok |-> TRUE, lastrowid |-> 0,
              db |-> functions_ad([D EXCEPT !.functions = @ \ {old}], old)]

\* INSERT OR REPLACE INTO functions: as for classes, functions_ad does not run for
\* the row removed
sql_replace_function(D, row) ==
    LET gone == {r \in D.functions :
                    r.full_qualified_name = row.full_qualified_name}
    IN  sql_insert_function([D EXCEPT !.functions = @ \ gone], FALSE, row)

\* SELECT rowid FROM classes_fts WHERE classes_fts MATCH token: the rows indexed
\* with the token in their docstring
classes_fts_match(D, token) ==
    {e.rowid : e \in {x \in D.classes_fts :
                         x.docstring # None /\ token \in Range(x.docstring[1])}}

(***************************************************************************)
(* DatabaseCreator (scripts/create_database.py).  A run of create() is     *)
(* threaded through a record c: the connection's working state c.db, the   *)
(* committed state c.disk, the creator's dicts, the exception raised so    *)
(* far (c.raised, "none" while none is) and the value a call returned      *)
(* (c.ret).  A statement after an exception is not executed.  The store    *)
(* itself may fail any statement (sqlite3.OperationalError): c.failAt      *)
(* numbers the statement of the run at which it does, 0 for none.          *)
(***************************************************************************)
Raise(c, error) == [c EXCEPT !.raised = error]

\* what an INSERT that took D to D2 inserted: the table and the row's key
LogEntry(D, D2) ==
    IF D2.seq.modules # D.seq.modules THEN <<"modules", D2.seq.modules>>
    ELSE IF D2.seq.classes # D.seq.classes THEN <<"classes", D2.seq.classes>>
    ELSE IF D2.seq.functions # D.seq.functions
         THEN <<"functions", D2.seq.functions>>
    ELSE IF D2.seq.parameters # D.seq.parameters
         THEN <<"parameters", D2.seq.parameters>>
    ELSE <<"class_inheritance",
           CHOOSE e \in D2.class_inheritance : e \notin D.class_inheritance>>

\* cursor.execute of one INSERT: r is what the statement does on c.db
Execute(c, r) ==
    IF c.raised # "none" THEN c
    ELSE IF c.nstmt + 1 = c.failAt
         THEN [Raise(c, "OperationalError") EXCEPT !.nstmt = @ + 1]
    ELSE IF ~ r.ok
         THEN [Raise(c, "IntegrityError") EXCEPT !.nstmt = @ + 1]
    ELSE [c EXCEPT !.nstmt = @ + 1, !.db = r.db, !.ret = r.lastrowid,
                   !.log = Append(@, LogEntry(c.db, r.db))]

\* an execute whose failure is caught and passed over: a plausible slip
ExecuteDDL_ignoring_failure(c, object) ==
    IF c.raised # "none" THEN c
    ELSE IF c.nstmt + 1 = c.failAt THEN [c EXCEPT !.nstmt = @ + 1]
    ELSE [c EXCEPT !.nstmt = @ + 1,
                   !.db = sql_create_if_not_exists(@, object),
                   !.disk = IF c.db = c.disk
                            THEN sql_create_if_not_exists(@, object) ELSE @,
                   !.log = Append(@, <<"schema", object>>)]

\* cursor.execute of one CREATE ... IF NOT EXISTS.  The sqlite3 module opens a
\* transaction before INSERT, UPDATE, DELETE and REPLACE only: a CREATE outside
\* a transaction is committed at once, one inside it is committed with it.
\* (A transaction is open when the connection has inserted rows since the last
\* commit, that is when c.db differs from c.disk.)
ExecuteDDL(c, object) ==
    IF c.raised # "none" THEN c
    ELSE IF c.nstmt + 1 = c.failAt
         THEN [Raise(c, "OperationalError") EXCEPT !.nstmt = @ + 1]
    ELSE [c EXCEPT !.nstmt = @ + 1,
                   !.db = sql_create_if_not_exists(@, object),
                   !.disk = IF c.db = c.disk
                            THEN sql_create_if_not_exists(@, object) ELSE @,
                   !.log = Append(@, <<"schema", object>>)]

\* self.conn.commit()
conn_commit(c) == IF c.raised # "none" THEN c ELSE [c EXCEPT !.disk = c.db]

\* a close that commits the open transaction: a plausible slip
conn_close_committing(c) == [c EXCEPT !.disk = c.db]

\* self.conn.close(): what was not committed is rolled back
conn_close(c) == [c EXCEPT !.db = c.disk]

\* an insert_module that catches the error of its INSERT: a plausible slip
insert_module_swallowing(c, module_data) ==
    LET c1 == Execute(c, sql_insert_module(c.db, module_data.name,
                                           module_data.docstring))
    IN  IF c1.raised # "none" THEN [c1 EXCEPT !.raised = "none"]
        ELSE [c1 EXCEPT !.module_ids = DictSet(@, module_data.name, c1.ret)]

\* insert_module (lines 218-237)
insert_module(c, module_data) ==
    LET c1 == Execute(c, sql_insert_module(c.db, module_data.name,
                                           module_data.docstring))
    IN  IF c1.raised # "none" THEN c1
        ELSE [c1 EXCEPT !.module_ids = DictSet(@, module_data.name, c1.ret)]

\* a loop that counts the positions from 1: a plausible slip
RECURSIVE insert_parameters_one_based(_, _, _, _)
insert_parameters_one_based(c, function_id, params, position) ==
    IF position >= Len(params) \/ c.raised # "none" THEN c
    ELSE LET param_data == params[position + 1]
             row == [function_id |-> function_id, name |-> param_data.name,
                     kind |-> param_data.kind,
                     annotation |-> param_data.annotation,
                     default_value |-> param_data.default,
                     position |-> position + 1]
         IN  insert_parameters_one_based(
                 Execute(c, sql_insert_parameter(c.db, TRUE, row)),
                 function_id, params, position + 1)

\* the loop of lines 315-331, from position on
RECURSIVE insert_parameters(_, _, _, _)
insert_parameters(c, function_id, params, position) ==
    IF position >= Len(params) \/ c.raised # "none" THEN c
    ELSE LET param_data == params[position + 1]
             row == [function_id |-> function_id, name |-> param_data.name,
                     kind |-> param_data.kind,
                     annotation |-> param_data.annotation,
                     default_value |-> param_data.default,
                     position |-> position]
         IN  insert_parameters(Execute(c, sql_insert_parameter(c.db, TRUE, row)),
                               function_id, params, position + 1)

\* an insert_function that binds no return annotation: a plausible slip
insert_function_no_return_annotation(c, func_data, module_id, class_id) ==
    LET row == [name |-> func_data.name,
                full_qualified_name |-> func_data.qualified_name,
                signature_string |-> func_data.signature_string,
                docstring |-> func_data.docstring,
                return_annotation |-> None,
                is_async |-> IF func_data.is_async THEN 1 ELSE 0,
                is_classmethod |-> IF func_data.is_classmethod THEN 1 ELSE 0,
                is_staticmethod |-> IF func_data.is_staticmethod THEN 1 ELSE 0,
                class_id |-> class_id,
                module_id |-> module_id]
        c1 == Execute(c, sql_insert_function(c.db, TRUE, row))
    IN  IF c1.raised # "none" THEN c1
        ELSE insert_parameters(c1, c1.ret, func_data.parameters, 0)

\* insert_function (lines 278-331)
insert_function(c, func_data, module_id, class_id) ==
    LET row == [name |-> func_data.name,
                full_qualified_name |-> func_data.qualified_name,
                signature_string |-> func_data.signature_string,
                docstring |-> func_data.docstring,
                return_annotation |-> func_data.return_annotation,
                is_async |-> IF func_data.is_async THEN 1 ELSE 0,
                is_classmethod |-> IF func_data.is_classmethod THEN 1 ELSE 0,
                is_staticmethod |-> IF func_data.is_staticmethod THEN 1 ELSE 0,
                class_id |-> class_id,
                module_id |-> module_id]
        c1 == Execute(c, sql_insert_function(c.db, TRUE, row))
    IN  IF c1.raised # "none" THEN c1
        ELSE insert_parameters(c1, c1.ret, func_data.parameters, 0)

\* the loop of lines 265-272, from base number i on
RECURSIVE insert_bases(_, _, _, _)
insert_bases(c, class_id, bases, i) ==
    IF i > Len(bases) \/ c.raised # "none" THEN c
    ELSE insert_bases(Execute(c, sql_insert_inheritance(c.db, TRUE, class_id,
                                                        bases[i])),
                      class_id, bases, i + 1)

\* a loop calling insert_function on each element (lines 275-276 and 347-348)
RECURSIVE insert_functions(_, _, _, _, _)
insert_functions(c, funcs, i, module_id, class_id) ==
    IF i > Len(funcs) \/ c.raised # "none" THEN c
    ELSE insert_functions(insert_function(c, funcs[i], module_id, class_id),
                          funcs, i + 1, module_id, class_id)

\* an insert_class that files the methods under the first module: a plausible
\* slip
insert_class_methods_in_root(c, class_data, module_id) ==
    LET c1 == Execute(c, sql_insert_class(c.db, TRUE, class_data.name,
                                          class_data.qualified_name,
                                          class_data.docstring, module_id))
    IN  IF c1.raised # "none" THEN c1
        ELSE LET class_id == c1.ret
                 c2 == [c1 EXCEPT !.class_ids =
                           DictSet(@, class_data.qualified_name, class_id)]
                 c3 == insert_bases(c2, class_id, class_data.bases, 1)
             IN  insert_functions(c3, class_data.methods, 1, 1, Some(class_id))

\* insert_class (lines 239-276)
insert_class(c, class_data, module_id) ==
    LET c1 == Execute(c, sql_insert_class(c.db, TRUE, class_data.name,
                                          class_data.qualified_name,
                                          class_data.docstring, module_id))
    IN  IF c1.raised # "none" THEN c1
        ELSE LET class_id == c1.ret
                 c2 == [c1 EXCEPT !.class_ids =
                           DictSet(@, class_data.qualified_name, class_id)]
                 c3 == insert_bases(c2, class_id, class_data.bases, 1)
             IN  insert_functions(c3, class_data.methods, 1, module_id,
                                  Some(class_id))

\* the loop of lines 343-344, from class number i on
RECURSIVE insert_classes(_, _, _, _)
insert_classes(c, classes, i, module_id) ==
    IF i > Len(classes) \/ c.raised # "none" THEN c
    ELSE insert_classes(insert_class(c, classes[i], module_id), classes, i + 1,
                        module_id)

\* a process_module that inserts the functions before the classes: a plausible
\* slip
RECURSIVE process_module_functions_first(_, _)
RECURSIVE process_submodules_functions_first(_, _, _)
process_module_functions_first(c, module_data) ==
    LET c1 == insert_module(c, module_data)
    IN  IF c1.raised # "none" THEN c1
        ELSE LET module_id == c1.ret
                 c2 == insert_functions(c1, module_data.functions, 1, module_id,
                                        None)
                 c3 == insert_classes(c2, module_data.classes, 1, module_id)
             IN  process_submodules_functions_first(c3, module_data.submodules, 1)

process_submodules_functions_first(c, subs, i) ==
    IF i > Len(subs) \/ c.raised # "none" THEN c
    ELSE process_submodules_functions_first(
             process_module_functions_first(c, subs[i]), subs, i + 1)

\* process_module (lines 338-352) and its loop over the submodules
RECURSIVE process_module(_, _)
RECURSIVE process_submodules(_, _, _)
process_module(c, module_data) ==
    LET c1 == insert_module(c, module_data)
    IN  IF c1.raised # "none" THEN c1
        ELSE LET module_id == c1.ret
                 c2 == insert_classes(c1, module_data.classes, 1, module_id)
                 c3 == insert_functions(c2, module_data.functions, 1, module_id,
                                        None)
             IN  process_submodules(c3, module_data.submodules, 1)

process_submodules(c, subs, i) ==
    IF i > Len(subs) \/ c.raised # "none" THEN c
    ELSE process_submodules(process_module(c, subs[i]), subs, i + 1)

\* populate_database (lines 333-355)
populate_database(c, data) == conn_commit(process_module(c, data))

\* the statements of create_schema from number i on
RECURSIVE create_objects(_, _)
create_objects(c, i) ==
    IF i > Len(SchemaStatements) \/ c.raised # "none" THEN c
    ELSE create_objects(ExecuteDDL(c, SchemaStatements[i]), i + 1)

\* create_schema (lines 44-216): the DDL, then commit
create_schema(c) == conn_commit(create_objects(c, 1))

\* create (lines 397-420) on a creator cr with the database file in state D:
\* the file is removed, the schema created, the data populated, and the
\* connection closed whether or not an exception was raised
\* the try block of create (lines 409-417), after unlink and connect
create_body(cr, D, json_data, failAt) ==
    LET c0 == [db |-> NoFile, disk |-> NoFile,
               module_ids |-> cr.module_ids, class_ids |-> cr.class_ids,
               raised |-> "none", ret |-> 0, nstmt |-> 0, failAt |-> failAt,
               log |-> <<>>]
    IN  populate_database(create_schema(c0), json_data)

create(cr, D, json_data, failAt) ==
    conn_close(create_body(cr, D, json_data, failAt))

(***************************************************************************)
(* export_entities and main (scripts/divide_entities.py, lines 20-35 and   *)
(* 66-99).                                                                 *)
(***************************************************************************)
\* a <= b for TEXT values under the BINARY collation (memcmp, a prefix first)
RECURSIVE TextLeq(_, _)
TextLeq(a, b) ==
    IF a = <<>> THEN TRUE
    ELSE IF b = <<>> THEN FALSE
    ELSE IF Head(a) # Head(b) THEN Head(a) < Head(b)
    ELSE TextLeq(Tail(a), Tail(b))

\* the rows of the compound SELECT (lines 26-28)
EntityOf(type, r) ==
    [type |-> type, id |-> r.id, name |-> r.name,
     full_qualified_name |-> r.full_qualified_name]

SelectedEntities(D) ==
    {EntityOf("CLASS", r) : r \in D.classes}
        \cup {EntityOf("FUNCTION", r) : r \in D.functions}

\* an ORDER BY type alone: a plausible slip
OrderByKeyLeq_type_only(a, b) == a.type = "CLASS" \/ b.type = "FUNCTION"

\* ORDER BY type, name (line 29): "CLASS" sorts before "FUNCTION"
OrderByKeyLeq(a, b) ==
    \/ a.type = "CLASS" /\ b.type = "FUNCTION"
    \/ a.type = b.type /\ TextLeq(a.name, b.name)

\* the orders in which the rows S can come out of the ORDER BY: a row with a
\* least key first.  SQL leaves the order of rows with equal keys to the engine
\* (its plan, its version, its pragmas), so each of them can be first.
RECURSIVE OrderedBy(_)
OrderedBy(S) ==
    IF S = {} THEN {<<>>}
    ELSE UNION {{<<m>> \o t : t \in OrderedBy(S \ {m})} :
                   m \in {x \in S : \A y \in S : OrderByKeyLeq(x, y)}}

\* export_entities (lines 20-35): the lists it can return
export_entities(D) == OrderedBy(SelectedEntities(D))

(***************************************************************************)
(* The partitioner as a state machine: a caller holding a list E and a     *)
(* num_groups calls divide_entities on it repeatedly and on reorderings of *)
(* it, while other code of the process uses the same generator.            *)
(***************************************************************************)
Entity(i) ==
    [type |-> IF 2 * i <= MaxEntities + 1 THEN "CLASS" ELSE "FUNCTION",
     id |-> i, name |-> <<i>>, full_qualified_name |-> <<0, i>>]

EntityPool == {Entity(i) : i \in 1..MaxEntities}

InitDivide ==
    /\ ToolsIdle
    /\ entities \in InjectiveSeqs(EntityPool, MaxEntities)
    /\ num_groups \in 1..MaxGroups
    /\ rng \in [seed : OtherSeeds, pos : {0}]
    /\ groups = <<>>
    /\ firstGroups = <<>>
    /\ shuffled = <<>>
    /\ ncalls = 0
    /\ touched = FALSE
    /\ reordered = entities
    /\ groupsReordered = <<>>
    /\ disk = NoFile
    /\ creator = [module_ids |-> EmptyDict, class_ids |-> EmptyDict]
    /\ doc = <<>>
    /\ outcome = "none"
    /\ conn = NoConn

\* groups = divide_entities(entities, num_groups)
Divide ==
    /\ HasWords(rng)
    /\ LET r == divide_entities(entities, num_groups, rng)
       IN  /\ groups' = r.groups
           /\ shuffled' = r.shuffled
           /\ firstGroups' = IF ncalls = 0 THEN r.groups ELSE firstGroups
           /\ rng' = r.rng
    /\ ncalls' = Min(ncalls + 1, 2)
    /\ UNCHANGED <<entities, num_groups, touched, reordered, groupsReordered,
                   storeVars, toolVars>>

\* divide_entities(p, num_groups) on another list p
DivideOther(p) ==
    /\ HasWords(rng)
    /\ LET r == divide_entities(p, num_groups, rng)
       IN  /\ reordered' = p
           /\ groupsReordered' = r.groups
           /\ rng' = r.rng
    /\ UNCHANGED <<entities, num_groups, groups, firstGroups, shuffled, ncalls,
                   touched, storeVars, toolVars>>

\* a call on a list equal to E in contents and order
DivideEqualList == DivideOther(list_copy(entities))

\* a call on a permutation of E
DivideReordered == \E p \in PermutationsOf(entities) : DivideOther(p)

\* other code of the process draws from the generator
OtherRandomUse ==
    /\ rng.pos < MaxRngPos
    /\ rng' = getrandbits(rng, 8).rng
    /\ touched' = (ncalls >= 1)
    /\ UNCHANGED <<entities, num_groups, groups, firstGroups, shuffled, ncalls,
                   reordered, groupsReordered, storeVars, toolVars>>

\* other code of the process seeds the generator
OtherSeed ==
    /\ \E a \in OtherSeeds : rng' = random_seed(rng, a)
    /\ touched' = (ncalls >= 1)
    /\ UNCHANGED <<entities, num_groups, groups, firstGroups, shuffled, ncalls,
                   reordered, groupsReordered, storeVars, toolVars>>

\* repeated calls on equal lists, with other uses of the generator in between
NextDivide == Divide \/ DivideEqualList \/ OtherRandomUse \/ OtherSeed

SpecDivide == InitDivide /\ [][NextDivide]_vars

\* calls on a list and on its permutations
NextReorder == Divide \/ DivideReordered

SpecReorder == InitDivide /\ [][NextReorder]_vars

\* a caller with any num_groups: --groups is type=int (line 69) and main passes
\* it on unchecked (line 84)
InitAnyGroups ==
    /\ ToolsIdle
    /\ entities \in InjectiveSeqs(EntityPool, MaxEntities)
    /\ num_groups \in (0 - MaxGroups)..MaxGroups
    /\ rng \in [seed : OtherSeeds, pos : {0}]
    /\ groups = <<>>
    /\ firstGroups = <<>>
    /\ shuffled = <<>>
    /\ ncalls = 0
    /\ touched = FALSE
    /\ reordered = entities
    /\ groupsReordered = <<>>
    /\ disk = NoFile
    /\ creator = [module_ids |-> EmptyDict, class_ids |-> EmptyDict]
    /\ doc = <<>>
    /\ outcome = "none"
    /\ conn = NoConn

\* groups = divide_entities(entities, num_groups), which returns or raises
DivideAnyGroups ==
    /\ HasWords(rng)
    /\ LET r == divide_entities(entities, num_groups, rng)
       IN  /\ groups' = IF r.raised = "none" THEN r.groups ELSE groups
           /\ outcome' = IF r.raised = "none" THEN "ok" ELSE r.raised
           /\ shuffled' = r.shuffled
           /\ firstGroups' = IF ncalls = 0 THEN groups' ELSE firstGroups
           /\ rng' = r.rng
    /\ ncalls' = Min(ncalls + 1, 2)
    /\ UNCHANGED <<entities, num_groups, touched, reordered, groupsReordered,
                   disk, creator, doc, conn, toolVars>>

SpecAnyGroups == InitAnyGroups /\ [][DivideAnyGroups]_vars

(***************************************************************************)
(* Module documents (the json_data of create(), as introspect.py writes    *)
(* it).  Names are sequences of character codes: 46 is ".", 109 is "m".    *)
(***************************************************************************)
ParamData(name, annotation, default) ==
    [name |-> name, kind |-> "POSITIONAL_OR_KEYWORD", annotation |-> annotation,
     default |-> default]

ParamX == ParamData("x", Some("int"), None)

ParamY == ParamData("y", Some("int"), Some("5"))

FuncData(name, qualified_name, docstring, parameters) ==
    [name |-> name, qualified_name |-> qualified_name,
     signature_string |-> IF parameters = <<>> THEN "()" ELSE "(x: int)",
     docstring |-> docstring, return_annotation |-> None,
     is_async |-> FALSE, is_classmethod |-> FALSE, is_staticmethod |-> FALSE,
     parameters |-> parameters]

ClassData(name, qualified_name, docstring, bases, methods) ==
    [name |-> name, qualified_name |-> qualified_name, docstring |-> docstring,
     bases |-> bases, methods |-> methods]

ModuleData(name, classes, functions, submodules) ==
    [name |-> name, docstring |-> None, classes |-> classes,
     functions |-> functions, submodules |-> submodules]

\* m.f(x, y) and m.g()
FuncF ==
    [FuncData(<<102>>, <<109, 46, 102>>, Some(<<"test", "function">>),
              <<ParamX, ParamY>>) EXCEPT !.return_annotation = Some("bool")]

FuncG == FuncData(<<103>>, <<109, 46, 103>>, None, <<>>)

\* m.C.run(x), m.D.run(): two methods of the same name
MethodCRun == FuncData(<<114>>, <<109, 46, 67, 46, 114>>, None, <<ParamX>>)

MethodDRun == FuncData(<<114>>, <<109, 46, 68, 46, 114>>, None, <<>>)

\* a method under the qualified name of the function m.f
MethodAsF == FuncData(<<102>>, <<109, 46, 102>>, None, <<>>)

\* m.C(object), m.D(Z, A), m.E(B, B), m.G
ClassPool ==
    {ClassData(<<67>>, <<109, 46, 67>>, Some(<<"test", "class">>), <<"object">>,
               <<MethodCRun>>),
     ClassData(<<68>>, <<109, 46, 68>>, None, <<"Z", "A">>, <<MethodDRun>>),
     ClassData(<<69>>, <<109, 46, 69>>, None, <<"B", "B">>, <<>>),
     ClassData(<<71>>, <<109, 46, 71>>, None, <<>>, <<MethodAsF>>)}

FunctionLists == {<<>>, <<FuncF>>, <<FuncG, FuncF>>}

\* m.s.K.run()
MethodKRun == FuncData(<<114>>, <<109, 46, 115, 46, 75, 46, 114>>, None, <<>>)

\* m.s with class m.s.K (and its method run) and function m.s.h; m.t re-exporting class m.C;
\* a submodule named like the root; m.u holding m.s
SubOk ==
    ModuleData(<<109, 46, 115>>,
               <<ClassData(<<75>>, <<109, 46, 115, 46, 75>>, None, <<"object">>,
                           <<MethodKRun>>)>>,
               <<FuncData(<<104>>, <<109, 46, 115, 46, 104>>, None, <<ParamX>>)>>,
               <<>>)

SubReexport ==
    ModuleData(<<109, 46, 116>>,
               <<ClassData(<<67>>, <<109, 46, 67>>, None, <<>>, <<>>)>>,
               <<>>, <<>>)

SubRootName == ModuleData(<<109>>, <<>>, <<>>, <<>>)

SubNested == ModuleData(<<109, 46, 117>>, <<>>, <<>>, <<SubOk>>)

SubmoduleLists ==
    {<<>>, <<SubOk>>, <<SubNested>>, <<SubOk, SubReexport>>,
     <<SubNested, SubRootName>>}

MaxClasses == 2     \* classes of the root module

SeqsUpTo(S, n) == UNION {[1..k -> S] : k \in 0..n}

Docs ==
    {ModuleData(<<109>>, cs, fs, ss) :
        cs \in SeqsUpTo(ClassPool, MaxClasses), fs \in FunctionLists,
        ss \in SubmoduleLists}

\* the modules of a document, parents first
RECURSIVE AllModules(_)
AllModules(m) ==
    <<m>> \o Concat([i \in 1..Len(m.submodules) |-> AllModules(m.submodules[i])])

DocClasses(d) == Concat([i \in 1..Len(AllModules(d)) |-> AllModules(d)[i].classes])

\* the functions of a document: module-level functions and methods
DocFunctions(d) ==
    Concat([i \in 1..Len(AllModules(d)) |-> AllModules(d)[i].functions])
    \o Concat([i \in 1..Len(DocClasses(d)) |-> DocClasses(d)[i].methods])

DocBaseCount(d) ==
    SumSeq([i \in 1..Len(DocClasses(d)) |-> Len(DocClasses(d)[i].bases)])

DocParameterCount(d) ==
    SumSeq([i \in 1..Len(DocFunctions(d)) |-> Len(DocFunctions(d)[i].parameters)])

\* the INSERT statements a complete traversal of the document executes
StatementCount(d) ==
    Len(AllModules(d)) + Len(DocClasses(d)) + DocBaseCount(d)
        + Len(DocFunctions(d)) + DocParameterCount(d)

\* a database file left by an earlier run of the tool
OldDb ==
    [create_schema_ddl(NoFile) EXCEPT
                   !.modules = {[id |-> 1, name |-> <<111>>, docstring |-> None]},
                   !.seq.modules = 1]

(***************************************************************************)
(* The store builder as a state machine: main() builds one                 *)
(* DatabaseCreator and calls create(data) on it (lines 445-446).           *)
(***************************************************************************)
InitIngest ==
    /\ ToolsIdle
    /\ disk \in {NoFile, OldDb}
    /\ creator = [module_ids |-> EmptyDict, class_ids |-> EmptyDict]
    /\ doc \in Docs
    /\ outcome = "none"
    /\ conn = NoConn
    /\ entities = <<>>
    /\ num_groups = 1
    /\ rng = [seed |-> 0, pos |-> 0]
    /\ groups = <<>>
    /\ firstGroups = <<>>
    /\ shuffled = <<>>
    /\ ncalls = 0
    /\ touched = FALSE
    /\ reordered = <<>>
    /\ groupsReordered = <<>>

\* creator.create(doc); the store fails statement number failAt, if any
Create ==
    /\ outcome = "none"
    /\ \E failAt \in 0..(Len(SchemaStatements) + StatementCount(doc)) :
          LET c == create(creator, disk, doc, failAt)
              b == create_body(creator, disk, doc, failAt)
          IN  /\ disk' = c.disk
              /\ conn' = [db |-> b.db, log |-> b.log, call |-> "create"]
              /\ creator' = [module_ids |-> c.module_ids, class_ids |-> c.class_ids]
              /\ outcome' = IF c.raised = "none" THEN "ok" ELSE c.raised
    /\ UNCHANGED <<doc, divVars, toolVars>>

NextIngest == Create

SpecIngest == InitIngest /\ [][NextIngest]_vars

(***************************************************************************)
(* main of divide_entities.py (lines 66-99) run again and again, each run  *)
(* a new process, on a store that create() built and nobody changes.       *)
(***************************************************************************)
NewCreator == [module_ids |-> EmptyDict, class_ids |-> EmptyDict]

BuiltStores == {create(NewCreator, NoFile, d, 0).disk : d \in Docs}

InitExport ==
    /\ ToolsIdle
    /\ disk \in {NoFile} \cup BuiltStores
    /\ creator = NewCreator
    /\ doc = <<>>
    /\ outcome = "none"
    /\ conn = NoConn
    /\ entities = <<>>
    /\ num_groups \in 1..MaxGroups
    /\ rng \in [seed : OtherSeeds, pos : {0}]
    /\ groups = <<>>
    /\ firstGroups = <<>>
    /\ shuffled = <<>>
    /\ ncalls = 0
    /\ touched = FALSE
    /\ reordered = <<>>
    /\ groupsReordered = <<>>

\* one run of main with --groups num_groups: groups stands for the group files
\* written, outcome for the exit status
RunMain ==
    /\ ncalls < 2
    /\ IF ~ disk.exists
       THEN /\ outcome' = "exit 1"
            /\ ncalls' = ncalls + 1
            /\ UNCHANGED <<entities, groups, firstGroups, shuffled, rng>>
       ELSE \E e \in export_entities(disk) :
               LET r == divide_entities(e, num_groups, [rng EXCEPT !.pos = 0])
               IN  /\ entities' = e
                   /\ groups' = r.groups
                   /\ shuffled' = r.shuffled
                   /\ firstGroups' = IF ncalls = 0 THEN r.groups ELSE firstGroups
                   /\ rng' = r.rng
                   /\ ncalls' = ncalls + 1
                   /\ outcome' = "exit 0"
    /\ UNCHANGED <<num_groups, touched, reordered, groupsReordered, disk, creator,
                   doc, conn, toolVars>>

NextExport == RunMain

SpecExport == InitExport /\ [][NextExport]_vars

(***************************************************************************)
(* Later writers on a store that create() built: single statements on      *)
(* classes and functions, each in its own transaction, on connections with *)
(* foreign keys on or off.  outcome tells whether a statement so far was   *)
(* an INSERT OR REPLACE that removed a row.                                *)
(***************************************************************************)
MaxRowId == 2       \* ids AUTOINCREMENT hands out to the writers' rows

WriterDocs == {d \in Docs : d.submodules = <<>> /\ d.functions # <<FuncF>>
                            /\ Len(d.classes) <= 1}

\* the rows the writers insert, and the values they update to
WriterClasses ==
    {[name |-> cd.name, full_qualified_name |-> cd.qualified_name,
      docstring |-> cd.docstring] :
        cd \in {x \in ClassPool : x.name \in {<<67>>, <<68>>}}}

WriterFunctions ==
    {[name |-> fd.name, full_qualified_name |-> fd.qualified_name,
      signature_string |-> fd.signature_string, docstring |-> fd.docstring,
      return_annotation |-> None, is_async |-> 0, is_classmethod |-> 0,
      is_staticmethod |-> 0, class_id |-> None, module_id |-> 1] :
        fd \in {FuncF, FuncG}}

InitWriters ==
    /\ ToolsIdle
    /\ disk \in {create(NewCreator, NoFile, d, 0).disk : d \in WriterDocs}
    /\ creator = NewCreator
    /\ doc = <<>>
    /\ outcome = "plain"
    /\ conn = NoConn
    /\ entities = <<>>
    /\ num_groups = 1
    /\ rng = [seed |-> 0, pos |-> 0]
    /\ groups = <<>>
    /\ firstGroups = <<>>
    /\ shuffled = <<>>
    /\ ncalls = 0
    /\ touched = FALSE
    /\ reordered = <<>>
    /\ groupsReordered = <<>>

\* the statement's effect r is committed, if the store accepted it
Commit(r) ==
    /\ r.ok
    /\ disk' = r.db
    /\ UNCHANGED <<creator, doc, conn, divVars, toolVars>>

InsertClass ==
    /\ disk.seq.classes < MaxRowId
    /\ \E w \in WriterClasses, fk \in BOOLEAN :
          Commit(sql_insert_class(disk, fk, w.name, w.full_qualified_name,
                                  w.docstring, 1))
    /\ UNCHANGED outcome

UpdateClass ==
    /\ \E old \in disk.classes, w \in WriterClasses :
          Commit(sql_update_class(disk, old.id, w.name, w.full_qualified_name,
                                  w.docstring))
    /\ UNCHANGED outcome

DeleteClass ==
    /\ \E old \in disk.classes, fk \in BOOLEAN :
          Commit(sql_delete_class(disk, fk, old.id))
    /\ UNCHANGED outcome

ReplaceClass ==
    /\ disk.seq.classes < MaxRowId
    /\ \E w \in WriterClasses :
          /\ Commit(sql_replace_class(disk, w.name, w.full_qualified_name,
                                      w.docstring, 1))
          /\ outcome' =
                IF \E r \in disk.classes :
                      r.full_qualified_name = w.full_qualified_name
                THEN "replaced" ELSE outcome

InsertFunction ==
    /\ disk.seq.functions < MaxRowId
    /\ \E w \in WriterFunctions, fk \in BOOLEAN :
          Commit(sql_insert_function(disk, fk, w))
    /\ UNCHANGED outcome

UpdateFunction ==
    /\ \E old \in disk.functions, w \in WriterFunctions :
          Commit(sql_update_function(disk, old.id, w.name, w.docstring,
                                     w.signature_string))
    /\ UNCHANGED outcome

DeleteFunction ==
    /\ \E old \in disk.functions, fk \in BOOLEAN :
          Commit(sql_delete_function(disk, fk, old.id))
    /\ UNCHANGED outcome

ReplaceFunction ==
    /\ disk.seq.functions < MaxRowId
    /\ \E w \in WriterFunctions :
          /\ Commit(sql_replace_function(disk, w))
          /\ outcome' =
                IF \E r \in disk.functions :
                      r.full_qualified_name = w.full_qualified_name
                THEN "replaced" ELSE outcome

NextWriters ==
    \/ InsertClass \/ UpdateClass \/ DeleteClass \/ ReplaceClass
    \/ InsertFunction \/ UpdateFunction \/ DeleteFunction \/ ReplaceFunction

SpecWriters == InitWriters /\ [][NextWriters]_vars

(***************************************************************************)
(* The DatabaseCreator driven call by call, as the tests drive it           *)
(* (tests/test_create_database.py): a connection with foreign keys on,     *)
(* then create_schema, insert_module, insert_class, insert_function and    *)
(* commit in any order.  An exception of a call reaches the caller, who    *)
(* goes on; what the call had inserted stays in the open transaction.      *)
(* conn.log holds the statements of the latest call, outcome its result.   *)
(***************************************************************************)
ModulePool ==
    {[name |-> <<109>>, docstring |-> None],
     [name |-> <<109, 46, 115>>, docstring |-> Some(<<"sub">>)],
     [name |-> <<109>>, docstring |-> Some(<<"again">>)]}

InitCalls ==
    /\ ToolsIdle
    /\ disk = NoFile
    /\ conn = [db |-> NoFile, log |-> <<>>, call |-> "connect"]
    /\ creator = NewCreator
    /\ doc = <<>>
    /\ outcome = "none"
    /\ entities = <<>>
    /\ num_groups = 1
    /\ rng = [seed |-> 0, pos |-> 0]
    /\ groups = <<>>
    /\ firstGroups = <<>>
    /\ shuffled = <<>>
    /\ ncalls = 0
    /\ touched = FALSE
    /\ reordered = <<>>
    /\ groupsReordered = <<>>

\* the connection and the creator as a call finds them
Caller ==
    [db |-> conn.db, disk |-> disk,
     module_ids |-> creator.module_ids, class_ids |-> creator.class_ids,
     raised |-> "none", ret |-> 0, nstmt |-> 0, failAt |-> 0, log |-> <<>>]

\* the call returned or raised, leaving c
Return(c, call) ==
    /\ conn' = [db |-> c.db, log |-> c.log, call |-> call]
    /\ disk' = c.disk
    /\ creator' = [module_ids |-> c.module_ids, class_ids |-> c.class_ids]
    /\ outcome' = IF c.raised = "none" THEN "ok" ELSE c.raised
    /\ UNCHANGED <<doc, divVars, toolVars>>

HasSchema(D) == Range(SchemaStatements) \subseteq D.schema

CallCreateSchema == Return(create_schema(Caller), "create_schema")

CallInsertModule ==
    /\ HasSchema(conn.db)
    /\ \E module_data \in ModulePool :
          /\ \/ conn.db.seq.modules < MaxRowId
             \/ \E r \in conn.db.modules : r.name = module_data.name
          /\ Return(insert_module(Caller, module_data), "insert_module")

CallInsertClass ==
    /\ HasSchema(conn.db)
    /\ conn.db.seq.classes < MaxRowId
    /\ conn.db.seq.functions < MaxRowId
    /\ \E class_data \in ClassPool, module_id \in 1..MaxRowId :
          Return(insert_class(Caller, class_data, module_id), "insert_class")

CallInsertFunction ==
    /\ HasSchema(conn.db)
    /\ conn.db.seq.functions < MaxRowId
    /\ \E func_data \in {FuncF}, module_id \in 1..MaxRowId,
          class_id \in {None, Some(1)} :
          Return(insert_function(Caller, func_data, module_id, class_id),
                 "insert_function")

CallCommit == Return(conn_commit(Caller), "commit")

NextCalls ==
    \/ CallCreateSchema \/ CallInsertModule \/ CallInsertClass
    \/ CallInsertFunction \/ CallCommit

SpecCalls == InitCalls /\ [][NextCalls]_vars

(***************************************************************************)
(* verify_coverage (scripts/verify_coverage.py, lines 18-84) on a store     *)
(* that create() built and to which examples are added.                    *)
(***************************************************************************)
\* an average as the pair <<sum, count>>; 0 when nothing is covered
Avg(n, covered) == IF covered > 0 THEN <<n, covered>> ELSE <<0, 1>>

\* a verify_coverage whose orphans are the examples with a NULL in either
\* column: a plausible slip
verify_coverage_either_null(D) ==
    LET of_function == {e \in D.examples : e.function_id # None}
        of_class    == {e \in D.examples : e.class_id # None}
        functions_covered == Cardinality({e.function_id : e \in of_function})
        classes_covered   == Cardinality({e.class_id : e \in of_class})
    IN  [total_examples    |-> Cardinality(D.examples),
         total_functions   |-> Cardinality(D.functions),
         total_classes     |-> Cardinality(D.classes),
         functions_covered |-> functions_covered,
         classes_covered   |-> classes_covered,
         orphaned_examples |->
             Cardinality({e \in D.examples :
                             e.function_id = None \/ e.class_id = None}),
         avg_examples_per_function |->
             Avg(Cardinality(of_function), functions_covered),
         avg_examples_per_class |-> Avg(Cardinality(of_class), classes_covered)]

\* verify_coverage (lines 18-84): the dict it returns
verify_coverage(D) ==
    LET of_function == {e \in D.examples : e.function_id # None}
        of_class    == {e \in D.examples : e.class_id # None}
        functions_covered == Cardinality({e.function_id : e \in of_function})
        classes_covered   == Cardinality({e.class_id : e \in of_class})
    IN  [total_examples    |-> Cardinality(D.examples),
         total_functions   |-> Cardinality(D.functions),
         total_classes     |-> Cardinality(D.classes),
         functions_covered |-> functions_covered,
         classes_covered   |-> classes_covered,
         orphaned_examples |->
             Cardinality({e \in D.examples :
                             e.function_id = None /\ e.class_id = None}),
         avg_examples_per_function |->
             Avg(Cardinality(of_function), functions_covered),
         avg_examples_per_class |-> Avg(Cardinality(of_class), classes_covered)]

\* the variables of the partitioner, unused
DivideIdle ==
    /\ entities = <<>>
    /\ num_groups = 1
    /\ rng = [seed |-> 0, pos |-> 0]
    /\ groups = <<>>
    /\ firstGroups = <<>>
    /\ shuffled = <<>>
    /\ ncalls = 0
    /\ touched = FALSE
    /\ reordered = <<>>
    /\ groupsReordered = <<>>

InitCoverage ==
    /\ disk \in {create(NewCreator, NoFile, d, 0).disk : d \in WriterDocs}
    /\ creator = NewCreator
    /\ doc = <<>>
    /\ outcome = "none"
    /\ conn = NoConn
    /\ DivideIdle
    /\ ToolsIdle

\* a writer inserts an example and commits, on a connection with foreign keys on
\* or off
InsertExample ==
    /\ disk.seq.examples < MaxRowId
    /\ \E fk \in BOOLEAN, code \in {None, Some(<<99>>)},
          function_id \in {None} \cup {Some(k) : k \in 1..MaxRowId},
          class_id \in {None} \cup {Some(k) : k \in 1..MaxRowId} :
          LET r == sql_insert_example(disk, fk, code, function_id, class_id)
          IN  /\ disk' = r.db
              /\ outcome' = IF r.ok THEN "ok" ELSE "IntegrityError"
              /\ conn' = [db |-> r.db, log |-> <<>>, call |-> "insert_example"]
    /\ UNCHANGED <<creator, doc, divVars, toolVars>>

VerifyCoverage ==
    /\ stats' = verify_coverage(disk)
    /\ conn' = [db |-> disk, log |-> <<>>, call |-> "verify_coverage"]
    /\ UNCHANGED <<disk, creator, doc, outcome, divVars, workflow, walker, dist>>

NextCoverage == InsertExample \/ VerifyCoverage

SpecCoverage == InitCoverage /\ [][NextCoverage]_vars

(***************************************************************************)
(* The command lines: main of create_database.py (lines 423-448) reading   *)
(* the input file doc (None when there is no such file) and writing the    *)
(* database file, and main of divide_entities.py reading that database.    *)
(***************************************************************************)
\* a main that makes the DatabaseCreator work before it looks for the input:
\* a plausible slip
main_create_database_unlink_first(input, D) ==
    IF input = None THEN [disk |-> NoFile, status |-> "exit 1"]
    ELSE LET c == create(NewCreator, D, input, 0)
         IN  [disk |-> c.disk,
              status |-> IF c.raised = "none" THEN "exit 0" ELSE "exit 1"]

\* main of create_database.py: the database file and the exit status it leaves
\* (an exception that leaves main ends the process with status 1)
main_create_database(input, D) ==
    IF input = None THEN [disk |-> D, status |-> "exit 1"]
    ELSE LET c == create(NewCreator, D, input, 0)
         IN  [disk |-> c.disk,
              status |-> IF c.raised = "none" THEN "exit 0" ELSE "exit 1"]

InitCli ==
    /\ ToolsIdle
    /\ disk \in {NoFile, OldDb}
    /\ doc \in {None} \cup WriterDocs
    /\ creator = NewCreator
    /\ outcome = "none"
    /\ conn = NoConn
    /\ entities = <<>>
    /\ num_groups \in 1..MaxGroups
    /\ rng \in [seed : OtherSeeds, pos : {0}]
    /\ groups = <<>>
    /\ firstGroups = <<>>
    /\ shuffled = <<>>
    /\ ncalls = 0
    /\ touched = FALSE
    /\ reordered = <<>>
    /\ groupsReordered = <<>>

MainCreateDatabase ==
    /\ LET r == main_create_database(doc, disk)
       IN  /\ disk' = r.disk
           /\ outcome' = r.status
    /\ conn' = [NoConn EXCEPT !.call = "create_database"]
    /\ UNCHANGED <<creator, doc, divVars, toolVars>>

NextCli == MainCreateDatabase \/ RunMain

SpecCli == InitCli /\ [][NextCli]_vars

(***************************************************************************)
(* The full workflow (src/scripts/create_full_mcp_server.py): main runs    *)
(* three commands as subprocesses, then writes the configuration           *)
(* templates.  workflow.pc is the position of main: 0 before its checks,   *)
(* 1..3 before the command of that phase, 4 before the templates, 5 when   *)
(* the process has ended with status workflow.exit.                        *)
(***************************************************************************)
ReturnCodes == {0, 1, 2, -9}    \* what a subprocess can return

\* detect_environment (lines 49-66) in a directory holding these files
detect_environment(files) ==
    IF "uv.lock" \in files THEN <<"uv", "run", "--no-project", "python">>
    ELSE IF "poetry.lock" \in files THEN <<"poetry", "run", "python">>
    ELSE IF "Pipfile" \in files THEN <<"pipenv", "run", "python">>
    ELSE <<"python">>

\* a run_phase that goes on whatever the command returned: a plausible slip
run_phase_ignoring_returncode(w, phase_name, cmd, returncode) ==
    [w EXCEPT !.started = Append(@, [phase |-> phase_name, cmd |-> cmd]),
              !.codes = Append(@, returncode),
              !.pc = @ + 1]

\* run_phase (lines 33-46) when subprocess.run returns returncode
run_phase(w, phase_name, cmd, returncode) ==
    IF returncode # 0
    THEN [w EXCEPT !.started = Append(@, [phase |-> phase_name, cmd |-> cmd]),
                   !.codes = Append(@, returncode),
                   !.pc = 5, !.exit = Some(1)]
    ELSE [w EXCEPT !.started = Append(@, [phase |-> phase_name, cmd |-> cmd]),
                   !.codes = Append(@, returncode),
                   !.pc = @ + 1]

InitWorkflow ==
    /\ workflow \in [files : SUBSET {"uv.lock", "poetry.lock", "Pipfile"},
                     skill_dir : BOOLEAN, verbose : BOOLEAN,
                     pc : {0}, started : {<<>>}, codes : {<<>>}, exit : {None}]
    /\ stats = None
    /\ walker = None
    /\ dist = None
    /\ disk = NoFile
    /\ creator = NewCreator
    /\ doc = <<>>
    /\ outcome = "none"
    /\ conn = NoConn
    /\ DivideIdle

\* main up to the first phase (lines 139-161)
WorkflowStart ==
    /\ workflow.pc = 0
    /\ workflow' = IF workflow.skill_dir THEN [workflow EXCEPT !.pc = 1]
                   ELSE [workflow EXCEPT !.pc = 5, !.exit = Some(1)]
    /\ UNCHANGED <<divVars, storeVars, stats, walker, dist>>

\* phases 1 to 3 of main (lines 163-194)
RunPhase ==
    /\ workflow.pc \in 1..3
    /\ \E returncode \in ReturnCodes :
          LET python_cmd == detect_environment(workflow.files)
              phase_name == <<"1. Module Introspection", "2. Database Creation",
                              "3. MCP Server Generation">>[workflow.pc]
              cmd == <<python_cmd \o <<"introspect.py", "module", "--output",
                                        "introspect_json", "--max-depth",
                                        "max_depth">>,
                       python_cmd \o <<"create_database.py", "introspect_json",
                                        "--output", "api_db">>
                           \o (IF workflow.verbose THEN <<"--verbose">> ELSE <<>>),
                       python_cmd \o <<"create_mcp_server.py", "module",
                                        "--database", "api_db", "--output",
                                        "server_dir">>>>[workflow.pc]
          IN  workflow' = run_phase(workflow, phase_name, cmd, returncode)
    /\ UNCHANGED <<divVars, storeVars, stats, walker, dist>>

\* phase 4 of main (lines 196-227): create_mcp_config_template writes the two
\* templates, or an exception of its open() ends the process
ConfigurationTemplates ==
    /\ workflow.pc = 4
    /\ \E written \in BOOLEAN :
          workflow' =
              [workflow EXCEPT
                  !.started = Append(@,
                      [phase |-> "4. Configuration Template Creation",
                       cmd |-> None]),
                  !.pc = 5,
                  !.exit = IF written THEN Some(0) ELSE Some(1)]
    /\ UNCHANGED <<divVars, storeVars, stats, walker, dist>>

NextWorkflow == WorkflowStart \/ RunPhase \/ ConfigurationTemplates

SpecWorkflow == InitWorkflow /\ [][NextWorkflow]_vars

(***************************************************************************)
(* The module walk (scripts/introspect.py, ModuleIntrospector, lines       *)
(* 132-138 and 282-349).  The modules are names (texts) and graph[n] holds *)
(* the modules found among the members of module n; all names are public.  *)
(* walker.stack holds the calls of introspect_module in progress, below    *)
(* them the caller of the first call; a frame's sub collects the nodes     *)
(* [name, depth, parent] of the ModuleInfos its submodules returned.       *)
(***************************************************************************)
MaxDepth == 2       \* largest max_depth

\* pkg, pkg.a, pkg.ab
ModuleNames == {<<1>>, <<1, 2>>, <<1, 2, 3>>}

\* a test that forgets visited_modules: a plausible slip
returns_none_by_depth_only(w, module_name, depth) == depth > w.max_depth

\* the test of line 288: introspect_module returns None at once
returns_none(w, module_name, depth) ==
    module_name \in w.visited_modules \/ depth > w.max_depth

InitWalk ==
    /\ \E graph \in [ModuleNames -> SUBSET ModuleNames],
          max_depth \in 0..MaxDepth, root \in ModuleNames, above \in BOOLEAN :
          walker = [graph |-> graph, max_depth |-> max_depth,
                    visited_modules |-> {}, introspected |-> <<>>,
                    stack |-> <<[name |-> None,
                                 depth |-> IF above THEN max_depth ELSE -1,
                                 members |-> {root}, sub |-> {}]>>,
                    returned |-> "no", tree |-> {}]
    /\ stats = None
    /\ workflow = None
    /\ dist = None
    /\ disk = NoFile
    /\ creator = NewCreator
    /\ doc = <<>>
    /\ outcome = "none"
    /\ conn = NoConn
    /\ DivideIdle

\* the frame on top of the stack calls introspect_module on one of its members
\* with depth + 1 (lines 282-293 and 326-334; the first call is main's, line
\* 384): the call returns None at once, or marks the module and goes on
CallIntrospectModule ==
    /\ walker.stack # <<>>
    /\ LET top   == walker.stack[Len(walker.stack)]
           depth == top.depth + 1
       IN  \E module \in top.members :
              LET rest == [walker EXCEPT
                              !.stack[Len(walker.stack)].members = @ \ {module}]
              IN  walker' =
                     IF returns_none(walker, module, depth) THEN rest
                     ELSE [rest EXCEPT
                              !.visited_modules = @ \cup {module},
                              !.introspected = Append(@, module),
                              !.stack = Append(@,
                                  [name |-> module, depth |-> depth,
                                   members |->
                                       IF depth < walker.max_depth
                                       THEN {m \in walker.graph[module] :
                                               /\ Len(m) >= Len(module)
                                               /\ SubSeq(m, 1, Len(module)) = module}
                                       ELSE {},
                                   sub |-> {}])]
    /\ UNCHANGED <<divVars, storeVars, stats, workflow, dist>>

\* a call that has gone through its members returns its ModuleInfo (lines
\* 336-344); main ends when its call has returned (lines 384-388)
ReturnModuleInfo ==
    /\ walker.stack # <<>>
    /\ LET n   == Len(walker.stack)
           top == walker.stack[n]
       IN  /\ top.members = {}
           /\ walker' =
                 IF n = 1
                 THEN [walker EXCEPT
                          !.stack = <<>>,
                          !.returned = IF top.sub = {} THEN "None"
                                       ELSE "ModuleInfo",
                          !.tree = top.sub]
                 ELSE [walker EXCEPT
                          !.stack = SubSeq(@, 1, n - 2) \o
                              <<[@[n - 1] EXCEPT
                                    !.sub = @ \cup top.sub \cup
                                        {[name |-> top.name, depth |-> top.depth,
                                          parent |-> walker.stack[n - 1].name]}]>>]
    /\ UNCHANGED <<divVars, storeVars, stats, workflow, dist>>

\* an exception inside a call is caught and the call returns None (lines
\* 346-349); what its submodules returned is dropped
RaiseInModule ==
    /\ Len(walker.stack) > 1
    /\ walker' = [walker EXCEPT !.stack = SubSeq(@, 1, Len(@) - 1)]
    /\ UNCHANGED <<divVars, storeVars, stats, workflow, dist>>

NextWalk == CallIntrospectModule \/ ReturnModuleInfo \/ RaiseInModule

\* every call of the walk is a step of one thread, which goes on while it can
SpecWalk == InitWalk /\ [][NextWalk]_vars /\ WF_vars(NextWalk)

(***************************************************************************)
(* SkillPublisher (publish.py).  dist.builds maps the number of every      *)
(* directory dist/build_NNNN/create-introspect-mcp to what it holds: the   *)
(* files copied, whether it has the directory scripts/ and BUILD_INFO.txt. *)
(* dist.sources are the files of include_patterns found in the root, and   *)
(* dist.last is the latest publish: its arguments, the build number it     *)
(* used, what it returned and the builds it found.                         *)
(***************************************************************************)
MaxBuild == 3       \* largest build number

\* include_patterns (lines 29-37), one file of each directory
include_patterns ==
    {[parent |-> ".", name |-> "SKILL.md"],
     [parent |-> "scripts", name |-> "introspect.py"]}

\* a next build number that counts the builds: a plausible slip
get_next_build_number_by_count(builds) == Cardinality(DOMAIN builds) + 1

\* get_next_build_number (lines 39-61)
get_next_build_number(builds) ==
    IF DOMAIN builds = {} THEN 1
    ELSE (CHOOSE n \in DOMAIN builds : \A k \in DOMAIN builds : k <= n) + 1

\* publish (lines 136-178) with create_build_directory (67-77),
\* copy_skill_files (79-103) and create_build_info (105-134): the builds it
\* leaves and what it returns
publish(D, dry_run, build_number) ==
    LET number == IF build_number = None THEN get_next_build_number(D.builds)
                  ELSE build_number[1]
        exists == number \in DOMAIN D.builds
        last   == [dry_run |-> dry_run, build_number |-> build_number,
                   number |-> number, before |-> D.builds]
        \* create_build_directory: mkdir(parents=True, exist_ok=False)
        made   == IF exists THEN D.builds[number]
                  ELSE [files |-> {}, scripts |-> FALSE, info |-> FALSE]
        \* copy_skill_files: dest_path.parent.mkdir, then copy2 unless dry_run
        copied == [made EXCEPT
                      !.scripts = @ \/ \E f \in D.sources : f.parent = "scripts",
                      !.files = IF dry_run THEN @ ELSE @ \cup D.sources]
        copied_count == Cardinality(D.sources)
    IN  IF ~ dry_run /\ exists
        THEN [D EXCEPT !.last = last @@ [result |-> "None"]]
        ELSE IF copied_count = 0
        THEN [D EXCEPT !.last = last @@ [result |-> "None"],
                       !.builds = IF dry_run THEN @
                                  ELSE (number :> made) @@ @]
        ELSE [D EXCEPT !.last = last @@ [result |-> "build_dir"],
                       !.builds = (number :> [copied EXCEPT
                                                 !.info = @ \/ ~ dry_run]) @@ @]

InitPublish ==
    /\ \E sources \in SUBSET include_patterns :
          dist = [sources |-> sources, builds |-> EmptyDict, last |-> None]
    /\ stats = None
    /\ workflow = None
    /\ walker = None
    /\ disk = NoFile
    /\ creator = NewCreator
    /\ doc = <<>>
    /\ outcome = "none"
    /\ conn = NoConn
    /\ DivideIdle

\* main (lines 181-224): one run of publish.py, with --dry-run or not and with
\* --build-number or not; it exits with 0 when publish returned a path
Publish ==
    /\ \E dry_run \in BOOLEAN,
          build_number \in {None} \cup {Some(n) : n \in 1..MaxBuild} :
          /\ build_number = None
                => get_next_build_number(dist.builds) <= MaxBuild
          /\ dist' = publish(dist, dry_run, build_number)
    /\ UNCHANGED <<divVars, storeVars, stats, workflow, walker>>

SpecPublish == InitPublish /\ [][Publish]_vars

(***************************************************************************)
(* Properties of divide_entities.                                          *)
(***************************************************************************)
GroupSizes(gs) == [i \in 1..Len(gs) |-> Len(gs[i])]

\* the 0-based index of the group holding e
GroupIndexOf(gs, e) == CHOOSE i \in 0..(Len(gs) - 1) : e \in Range(gs[i + 1])

\* C1: a call with num_groups >= 1 returns exactly num_groups groups whose sizes
\* add up to len(E); no entity is in two groups or twice in one, and the groups
\* together hold exactly the entities of E.
PartitionConservation ==
    ncalls >= 1 =>
        /\ Len(groups) = num_groups
        /\ SumSeq(GroupSizes(groups)) = Len(entities)
        /\ \A i, j \in 1..Len(groups) :
              i # j => Range(groups[i]) \cap Range(groups[j]) = {}
        /\ \A i \in 1..Len(groups) : IsInjective(groups[i])
        /\ UNION {Range(groups[i]) : i \in 1..Len(groups)} = Range(entities)

PartitionConservationWitness ==
    /\ ncalls >= 1
    /\ Len(entities) = 3
    /\ num_groups = 2

\* C2: the sizes of the groups returned differ by at most 1.
PartitionBalance ==
    ncalls >= 1 =>
        \A i, j \in 1..Len(groups) : Len(groups[i]) - Len(groups[j]) <= 1

PartitionBalanceWitness ==
    /\ ncalls >= 1
    /\ \E i, j \in 1..Len(groups) : Len(groups[i]) = 2 /\ Len(groups[j]) = 1

\* C3: with base = total div num_groups and remainder = total mod num_groups,
\* group i (0-based) has base + 1 elements when i < remainder and base otherwise,
\* and the groups concatenated in index order are the shuffled list.
SliceLayout ==
    ncalls >= 1 =>
        LET total     == Len(entities)
            base      == total \div num_groups
            remainder == total % num_groups
        IN  /\ Len(groups) = num_groups
            /\ \A i \in 0..(num_groups - 1) :
                  Len(groups[i + 1]) = IF i < remainder THEN base + 1 ELSE base
            /\ Concat(groups) = shuffled

SliceLayoutWitness ==
    /\ ncalls >= 1
    /\ Len(entities) = 3
    /\ num_groups = 2
    /\ Len(groups[1]) = 2
    /\ shuffled # entities

\* C4: calls of divide_entities on lists of equal contents and order and the same
\* num_groups return the same groups in the same order, whatever the generator
\* was used for in between: a repeated call returns what the first call returned,
\* and a call on an equal list E' returns what the call on E returned.
PartitionDeterminism ==
    /\ ncalls >= 1 => groups = firstGroups
    /\ (ncalls >= 1 /\ groupsReordered # <<>>) => groupsReordered = groups

PartitionDeterminismWitness ==
    /\ ncalls = 2
    /\ touched
    /\ rng.seed = Seed
    /\ Len(entities) = 3
    /\ shuffled # entities
    /\ groupsReordered # <<>>

\* C5 as stated: permutations E and E' of each other place every entity in the
\* same group index.
OrderIndependence ==
    (ncalls >= 1 /\ groupsReordered # <<>>) =>
        \A e \in Range(entities) :
            GroupIndexOf(groups, e) = GroupIndexOf(groupsReordered, e)

\* C5 amended: the group index is decided by the position in the input list: the
\* entity at position p of E and the entity at position p of E' get the same
\* group index.
PositionDecidesGroup ==
    (ncalls >= 1 /\ groupsReordered # <<>>) =>
        \A p \in 1..Len(entities) :
            GroupIndexOf(groups, entities[p])
                = GroupIndexOf(groupsReordered, reordered[p])

PositionDecidesGroupWitness ==
    /\ ncalls >= 1
    /\ groupsReordered # <<>>
    /\ reordered # entities
    /\ num_groups >= 2
    /\ \E e \in Range(entities) :
          GroupIndexOf(groups, e) # GroupIndexOf(groupsReordered, e)

\* C6: when num_groups >= len(E), the first len(E) groups have one element each
\* and the other num_groups - len(E) groups are empty.
FewerEntitiesThanGroups ==
    (ncalls >= 1 /\ num_groups >= Len(entities)) =>
        /\ Len(groups) = num_groups
        /\ \A i \in 1..Len(groups) :
              Len(groups[i]) = IF i <= Len(entities) THEN 1 ELSE 0

FewerEntitiesThanGroupsWitness ==
    /\ ncalls >= 1
    /\ Len(entities) = 2
    /\ num_groups = 4
    /\ Len(groups[2]) = 1
    /\ Len(groups[3]) = 0

(***************************************************************************)
(* Properties of create().                                                 *)
(***************************************************************************)
NoRows(D) ==
    /\ D.modules = {}
    /\ D.classes = {}
    /\ D.class_inheritance = {}
    /\ D.functions = {}
    /\ D.parameters = {}

\* D holds every module, class, function and parameter row of document d, every
\* inheritance edge of a declared base (the base object aside), and no other row
HoldsDocument(D, d) ==
    /\ {r.name : r \in D.modules} = {m.name : m \in Range(AllModules(d))}
    /\ Cardinality(D.modules) = Len(AllModules(d))
    /\ {r.full_qualified_name : r \in D.classes}
          = {k.qualified_name : k \in Range(DocClasses(d))}
    /\ Cardinality(D.classes) = Len(DocClasses(d))
    /\ {r.full_qualified_name : r \in D.functions}
          = {f.qualified_name : f \in Range(DocFunctions(d))}
    /\ Cardinality(D.functions) = Len(DocFunctions(d))
    /\ Cardinality(D.parameters) = DocParameterCount(d)
    /\ \A k \in Range(DocClasses(d)) : \A b \in Range(k.bases) :
          b # "object" =>
              \E r \in D.classes :
                  /\ r.full_qualified_name = k.qualified_name
                  /\ \E e \in D.class_inheritance :
                        e.class_id = r.id /\ e.base_class_name = b
    /\ \A e \in D.class_inheritance :
          \E r \in D.classes, k \in Range(DocClasses(d)) :
              /\ r.id = e.class_id
              /\ r.full_qualified_name = k.qualified_name
              /\ e.base_class_name \in Range(k.bases)

\* C9: once create() has ended, normally or with an error raised by any insert,
\* the committed store holds every row of the document or no row at all: all of
\* them when create() returned, none when it raised.
IngestionAtomicity ==
    outcome # "none" =>
        /\ NoRows(disk) \/ HoldsDocument(disk, doc)
        /\ outcome = "ok" => HoldsDocument(disk, doc)
        /\ outcome # "ok" => NoRows(disk)

\* a run that fails below the root module, after rows were inserted
IngestionAtomicityWitness ==
    /\ outcome = "IntegrityError"
    /\ <<109, 46, 115>> \in DOMAIN creator.module_ids
    /\ DOMAIN creator.class_ids # {}
    /\ NoRows(disk)
    /\ Range(SchemaStatements) \subseteq disk.schema

\* the rows S as a sequence in the order of their rowids
RECURSIVE InRowidOrder(_)
InRowidOrder(S) ==
    IF S = {} THEN <<>>
    ELSE LET first == CHOOSE x \in S : \A y \in S : x.rowid <= y.rowid
         IN  <<first>> \o InRowidOrder(S \ {first})

\* the parameter rows S as a sequence in the order of their positions (and of
\* their ids where positions are equal)
RECURSIVE InPositionOrder(_)
InPositionOrder(S) ==
    IF S = {} THEN <<>>
    ELSE LET first == CHOOSE x \in S : \A y \in S :
                          \/ x.position < y.position
                          \/ x.position = y.position /\ x.id <= y.id
         IN  <<first>> \o InPositionOrder(S \ {first})

\* the base names stored for a class, in the order of their rows
StoredBases(D, class_id) ==
    LET edges == InRowidOrder({e \in D.class_inheritance :
                                  e.class_id = class_id})
    IN  [i \in 1..Len(edges) |-> edges[i].base_class_name]

\* the parameters stored for a function, by position, as the document writes them
StoredParameters(D, function_id) ==
    LET ps == InPositionOrder({p \in D.parameters :
                                  p.function_id = function_id})
    IN  [i \in 1..Len(ps) |->
            [name |-> ps[i].name, kind |-> ps[i].kind,
             annotation |-> ps[i].annotation, default |-> ps[i].default_value]]

\* C11: after populate of a valid document (one create() accepts) every class and
\* every function of the document is found by its qualified name, in one row,
\* and the row gives back the document's fields: name and docstring, the list of
\* base names, the signature text, the return annotation, and the parameters in
\* their order with name, kind, annotation and default.
RoundTrip ==
    outcome = "ok" =>
        /\ \A k \in Range(DocClasses(doc)) :
              \E r \in disk.classes :
                  /\ r.full_qualified_name = k.qualified_name
                  /\ \A r2 \in disk.classes :
                        r2.full_qualified_name = k.qualified_name => r2 = r
                  /\ r.name = k.name
                  /\ r.docstring = k.docstring
                  /\ StoredBases(disk, r.id) = k.bases
        /\ \A f \in Range(DocFunctions(doc)) :
              \E r \in disk.functions :
                  /\ r.full_qualified_name = f.qualified_name
                  /\ \A r2 \in disk.functions :
                        r2.full_qualified_name = f.qualified_name => r2 = r
                  /\ r.name = f.name
                  /\ r.docstring = f.docstring
                  /\ r.signature_string = f.signature_string
                  /\ r.return_annotation = f.return_annotation
                  /\ StoredParameters(disk, r.id) = f.parameters

\* a document with a submodule, a class with two bases and a method, and a function
\* with a docstring, a return annotation and two parameters, one with a default
RoundTripWitness ==
    /\ outcome = "ok"
    /\ Len(doc.submodules) >= 1
    /\ \E k \in Range(DocClasses(doc)) : Len(k.bases) = 2 /\ k.methods # <<>>
    /\ \E r \in disk.functions :
          /\ r.return_annotation # None /\ r.docstring # None
          /\ Len(StoredParameters(disk, r.id)) = 2
          /\ StoredParameters(disk, r.id)[2].default # None

\* the characters of a name before its first "." (code 46), all of them when it
\* has none: the root module that the specification and the tests
\* (TestRootModuleFeature) expect get_root_module to give
RECURSIVE get_root_module(_)
get_root_module(name) ==
    IF name = <<>> \/ Head(name) = 46 THEN <<>>
    ELSE <<Head(name)>> \o get_root_module(Tail(name))

\* C12: every module row that insert_module wrote holds, in root_module, the part
\* of its name before the first "." (the whole name when there is none), so that
\* a query on root_module returns the modules that share the first segment.
RootModuleStored ==
    outcome = "ok" =>
        /\ \A r \in disk.modules :
              /\ "root_module" \in DOMAIN r
              /\ r.root_module = get_root_module(r.name)
        /\ \A r \in disk.modules :
              {q.name : q \in {x \in disk.modules :
                                  "root_module" \in DOMAIN x
                                  /\ x.root_module = get_root_module(r.name)}}
                 = {q.name : q \in {x \in disk.modules :
                                  get_root_module(x.name) = get_root_module(r.name)}}

\* C13: insert_class writes one inheritance edge for each declared base except
\* the base "object", which it skips: no state of the store, committed or inside
\* the transaction, has an edge to "object", and a class declared with the bases
\* ["object"] has no edge after ingestion.
ObjectBaseSkipped ==
    outcome # "none" =>
        /\ \A e \in disk.class_inheritance \cup conn.db.class_inheritance :
              e.base_class_name # "object"
        /\ outcome = "ok" =>
              \A k \in Range(DocClasses(doc)) :
                 k.bases = <<"object">> =>
                    \A r \in disk.classes :
                       r.full_qualified_name = k.qualified_name
                          => StoredBases(disk, r.id) = <<>>

\* C14: the parameter rows of a function that insert_function inserted with k
\* declared parameters have the positions 0..k-1, each once, and the row at
\* position i is the i-th declared parameter.  (While the insertion is under
\* way, or after it failed, the rows are those of the first parameters.)
ParameterPositions ==
    outcome # "none" =>
        \A r \in conn.db.functions :
           LET rows == {p \in conn.db.parameters : p.function_id = r.id}
           IN  /\ {p.position : p \in rows} = 0..(Cardinality(rows) - 1)
               /\ \A p, q \in rows : p.position = q.position => p = q
               /\ \E f \in Range(DocFunctions(doc)) :
                     /\ f.qualified_name = r.full_qualified_name
                     /\ Cardinality(rows) <= Len(f.parameters)
                     /\ outcome = "ok" => Cardinality(rows) = Len(f.parameters)
                     /\ \A p \in rows :
                           /\ p.name = f.parameters[p.position + 1].name
                           /\ p.kind = f.parameters[p.position + 1].kind
                           /\ p.annotation = f.parameters[p.position + 1].annotation
                           /\ p.default_value = f.parameters[p.position + 1].default

\* a function with two parameters and a method with one, all inserted
ParameterPositionsWitness ==
    /\ outcome = "ok"
    /\ \E r \in disk.functions :
          /\ r.class_id = None
          /\ {p.position : p \in {x \in disk.parameters : x.function_id = r.id}}
                = {0, 1}
    /\ \E r \in disk.functions :
          /\ r.class_id # None
          /\ {p.position : p \in {x \in disk.parameters : x.function_id = r.id}}
                = {0}

\* C15: insert_module called with a name that modules holds already fails with
\* the error of the UNIQUE constraint (sqlite3.IntegrityError, the
\* specification's DuplicateModuleError), which reaches the caller; no second
\* row of that name is stored, and the rows and the creator's name-to-id map stay
\* as they were.
DuplicateModuleFails ==
    [][\A module_data \in ModulePool :
          (/\ HasSchema(conn.db)
           /\ \E r \in conn.db.modules : r.name = module_data.name
           /\ conn'.call = "insert_module"
           /\ Return(insert_module(Caller, module_data), "insert_module"))
          => /\ outcome' = "IntegrityError"
             /\ conn'.db = conn.db
             /\ disk' = disk
             /\ creator' = creator
             /\ \A r1, r2 \in conn'.db.modules : r1.name = r2.name => r1 = r2]_vars

\* insert_module has just failed on a name that is stored, with its map entry
DuplicateModuleFailsWitness ==
    /\ conn.call = "insert_module"
    /\ outcome = "IntegrityError"
    /\ \E r \in conn.db.modules :
          /\ r.name = <<109>>
          /\ <<109>> \in DOMAIN creator.module_ids
          /\ creator.module_ids[<<109>>] = r.id
    /\ Cardinality(conn.db.modules) = 2

\* the class row that the latest call inserted first, if it inserted one
InsertedClass ==
    IF conn.log # <<>> /\ conn.log[1][1] = "classes"
    THEN {r \in conn.db.classes : r.id = conn.log[1][2]}
    ELSE {}

\* C16: no state of the store, committed or inside the transaction, has two
\* inheritance edges of one class to the same base name, and an insert_class
\* whose bases list repeats a name ends with a constraint error.
NoDuplicateEdges ==
    /\ \A e1, e2 \in conn.db.class_inheritance \cup disk.class_inheritance :
          (e1.class_id = e2.class_id /\ e1.base_class_name = e2.base_class_name)
             => e1 = e2
    /\ conn.call = "insert_class" =>
          \A r \in InsertedClass : \A class_data \in ClassPool :
             (/\ class_data.qualified_name = r.full_qualified_name
              /\ \E i, j \in 1..Len(class_data.bases) :
                    i # j /\ class_data.bases[i] = class_data.bases[j])
                => outcome = "IntegrityError"

\* insert_class of m.E, bases ["B", "B"], has just failed at the second edge
NoDuplicateEdgesWitness ==
    /\ conn.call = "insert_class"
    /\ outcome = "IntegrityError"
    /\ Len(conn.log) = 2
    /\ conn.log[2][1] = "class_inheritance"
    /\ conn.log[2][2].base_class_name = "B"
    /\ \E r \in InsertedClass : r.full_qualified_name = <<109, 46, 69>>

\* every class of D is in one module that exists, every method is in a class
\* that exists, and in the module of that class
Owned(D) ==
    /\ \A k \in D.classes :
          Cardinality({m \in D.modules : m.id = k.module_id}) = 1
    /\ \A f \in D.functions :
          f.class_id # None =>
             /\ Cardinality({k \in D.classes : Some(k.id) = f.class_id}) = 1
             /\ \A k \in D.classes : Some(k.id) = f.class_id
                                        => f.module_id = k.module_id

\* C17: in every state of the store that create() reaches, committed or inside
\* its transaction, every class row references one existing module, every
\* function row with a class_id references an existing class, and the module_id
\* of such a method is the module_id of its class.
Ownership == outcome # "none" => Owned(disk) /\ Owned(conn.db)

\* a committed store with a method of a class of a submodule
OwnershipWitness ==
    /\ outcome = "ok"
    /\ \E f \in disk.functions, k \in disk.classes :
          /\ f.class_id = Some(k.id)
          /\ k.module_id > 1
          /\ f.module_id = k.module_id
    /\ \E f \in disk.functions : f.class_id # None /\ f.module_id = 1

\* the places of the log at which the rows of a table were inserted
LogPlaces(table) == {j \in 1..Len(conn.log) : conn.log[j][1] = table}

\* the place of the log at which the row with this key was inserted
LogPlace(table, key) ==
    CHOOSE j \in LogPlaces(table) : conn.log[j][2] = key

\* the pairs (module, submodule) of a document, by name
RECURSIVE ParentPairs(_)
ParentPairs(m) ==
    {<<m.name, m.submodules[i].name>> : i \in 1..Len(m.submodules)}
        \cup UNION {ParentPairs(m.submodules[i]) : i \in 1..Len(m.submodules)}

\* C18: populate inserts a module row before its classes, functions and
\* submodules, a class row before its inheritance edges and methods, a function
\* row before its parameters, all classes of a module with their methods before
\* the module's own functions, and those before its submodules; so the id of a
\* module is smaller than the ids of its submodules.
InsertionOrder ==
    outcome # "none" =>
        LET D == conn.db
        IN  /\ \A k \in D.classes :
                  LogPlace("modules", k.module_id) < LogPlace("classes", k.id)
            /\ \A f \in D.functions :
                  /\ LogPlace("modules", f.module_id) < LogPlace("functions", f.id)
                  /\ f.class_id # None =>
                        LogPlace("classes", f.class_id[1])
                           < LogPlace("functions", f.id)
            /\ \A e \in D.class_inheritance :
                  LogPlace("classes", e.class_id) < LogPlace("class_inheritance", e)
            /\ \A q \in D.parameters :
                  LogPlace("functions", q.function_id) < LogPlace("parameters", q.id)
            /\ \A k \in D.classes, f \in D.functions :
                  (f.class_id = None /\ f.module_id = k.module_id)
                     => /\ LogPlace("classes", k.id) < LogPlace("functions", f.id)
                        /\ \A g \in D.functions :
                              g.class_id = Some(k.id)
                                 => LogPlace("functions", g.id)
                                       < LogPlace("functions", f.id)
            /\ \A pair \in ParentPairs(doc) : \A m, sub \in D.modules :
                  (m.name = pair[1] /\ sub.name = pair[2] /\ m # sub)
                     => /\ m.id < sub.id
                        /\ LogPlace("modules", m.id) < LogPlace("modules", sub.id)
                        /\ \A k \in D.classes :
                              k.module_id = m.id =>
                                 LogPlace("classes", k.id)
                                    < LogPlace("modules", sub.id)
                        /\ \A f \in D.functions :
                              f.module_id = m.id =>
                                 LogPlace("functions", f.id)
                                    < LogPlace("modules", sub.id)

\* a run that inserted two classes with bases and methods, then two functions of
\* the same module with parameters, then a submodule and its submodule
InsertionOrderWitness ==
    /\ outcome = "ok"
    /\ Cardinality({k \in disk.classes : k.module_id = 1}) = 2
    /\ Cardinality({f \in disk.functions : f.module_id = 1 /\ f.class_id = None}) = 2
    /\ \E f \in disk.functions : f.module_id = 1 /\ f.class_id # None
    /\ disk.class_inheritance # {}
    /\ disk.parameters # {}
    /\ Cardinality(disk.modules) = 3
    /\ <<"modules", 3>> \in Range(conn.log)

\* C19: create_schema called on a store that has the schema, with or without
\* rows, succeeds and leaves the tables, indexes, shadow indexes, triggers and
\* all rows as they were.
CreateSchemaIdempotent ==
    [][(conn'.call = "create_schema" /\ HasSchema(conn.db))
          => /\ outcome' = "ok"
             /\ conn'.db = conn.db
             /\ disk' = conn.db]_vars

\* create_schema has returned on a store that held the schema and rows
CreateSchemaIdempotentWitness ==
    /\ conn.call = "create_schema"
    /\ outcome = "ok"
    /\ HasSchema(disk)
    /\ disk.modules # {}
    /\ disk.classes # {}
    /\ disk.classes_fts # {}

\* C20: in create() every statement of the schema is executed, and the schema
\* committed, before the first row is inserted; when a statement of the schema
\* fails the error leaves create() and no module, class, inheritance, function
\* or parameter row is written, inside the transaction or to the store.
SchemaBeforeData ==
    outcome # "none" =>
        LET n == Len(SchemaStatements)
        IN  /\ \A j \in 1..Len(conn.log) :
                  IF j <= n THEN conn.log[j] = <<"schema", SchemaStatements[j]>>
                  ELSE conn.log[j][1] # "schema"
            /\ Len(conn.log) >= n => HasSchema(disk)
            /\ ~ NoRows(conn.db) => HasSchema(disk) /\ Len(conn.log) > n
            /\ ~ HasSchema(conn.db) =>
                  /\ outcome = "OperationalError"
                  /\ Len(conn.log) < n
                  /\ NoRows(conn.db)
                  /\ NoRows(disk)

\* a statement in the middle of the schema failed, on a document with classes,
\* functions and submodules
SchemaBeforeDataWitness ==
    /\ outcome = "OperationalError"
    /\ ~ HasSchema(conn.db)
    /\ "modules" \in disk.schema
    /\ Len(doc.classes) > 0 /\ Len(doc.functions) > 0 /\ Len(doc.submodules) > 0
    /\ NoRows(disk)

\* C21: after create_schema on an empty store the store has the six tables, the
\* two shadow tables, the six triggers and an index on each of classes.module_id,
\* classes.name, functions.class_id, functions.module_id, functions.name,
\* parameters.function_id and modules.root_module (idx_modules_root).
SchemaObjects ==
    (conn.call = "create_schema" /\ outcome = "ok") =>
        conn.db.schema =
            {"modules", "classes", "class_inheritance", "functions", "parameters",
             "examples", "classes_fts", "functions_fts",
             "idx_classes_module", "idx_classes_name", "idx_functions_class",
             "idx_functions_module", "idx_functions_name",
             "idx_parameters_function", "idx_modules_root",
             "classes_ai", "classes_ad", "classes_au",
             "functions_ai", "functions_ad", "functions_au"}

\* C22: the store accepts an example whose function_id and class_id are both
\* NULL, and verify_coverage reports as orphaned_examples the number of such
\* examples, counting each in total_examples and in neither functions_covered
\* nor classes_covered.
OrphansReported ==
    LET orphans == {e \in disk.examples :
                       e.function_id = None /\ e.class_id = None}
        others  == disk.examples \ orphans
    IN  /\ \A fk \in BOOLEAN :
              LET r == sql_insert_example(disk, fk, Some(<<99>>), None, None)
              IN  /\ r.ok
                  /\ Cardinality(r.db.examples) = Cardinality(disk.examples) + 1
        /\ conn.call = "verify_coverage" =>
              /\ stats.orphaned_examples = Cardinality(orphans)
              /\ stats.total_examples
                    = Cardinality(orphans) + Cardinality(others)
              /\ stats.functions_covered
                    = Cardinality({e.function_id : e \in others} \ {None})
              /\ stats.classes_covered
                    = Cardinality({e.class_id : e \in others} \ {None})

\* verify_coverage ran on a store with an orphaned example and an example of a
\* function
OrphansReportedWitness ==
    /\ conn.call = "verify_coverage"
    /\ stats.orphaned_examples = 1
    /\ stats.total_examples = 2
    /\ stats.functions_covered = 1
    /\ stats.total_functions >= 1

\* C24: a run of main on a store without classes and functions, whose export
\* yields zero entities, ends with exit status 1, not 0.
EmptyExportFails ==
    (ncalls >= 1 /\ disk.exists /\ SelectedEntities(disk) = {})
        => outcome = "exit 1"

\* C23: a command line whose input file (create_database) or database
\* (divide_entities) does not exist ends with exit status 1 and writes nothing:
\* the database file is neither created nor removed and no group file is
\* written.
MissingInput ==
    [][/\ (ncalls' = ncalls /\ doc = None)
            => (outcome' = "exit 1" /\ disk' = disk /\ groups' = groups)
       /\ (ncalls' # ncalls /\ ~ disk.exists)
            => (outcome' = "exit 1" /\ disk' = disk /\ groups' = groups)]_vars

\* both command lines ran without their input
MissingInputWitness ==
    /\ doc = None
    /\ conn.call = "create_database"
    /\ outcome = "exit 1"
    /\ disk = NoFile
    /\ ncalls >= 1
    /\ groups = <<>>

WalkBounded ==
    LET w == walker
    IN  /\ IsInjective(w.introspected)
        /\ \A i \in 2..Len(w.stack) : w.stack[i].depth <= w.max_depth
        /\ \A n \in w.tree : n.depth <= w.max_depth
        /\ Cardinality({n.name : n \in w.tree}) = Cardinality(w.tree)
        /\ \A i \in 1..Len(w.stack) :
              Cardinality({n.name : n \in w.stack[i].sub})
                 = Cardinality(w.stack[i].sub)
        /\ (w.returned # "no" /\ w.introspected = <<>>) => w.returned = "None"
        /\ (w.stack # <<>> /\ w.stack[1].depth + 1 > w.max_depth)
              => Len(w.stack) = 1 /\ w.introspected = <<>>

\* C26: the module walk ends on every module graph, graphs with modules that
\* refer to each other, to themselves or to their parent included; an
\* introspector introspects each module name at most once, a call with depth >
\* max_depth returns None, and no module of the tree is deeper than max_depth.
WalkTerminates == [] WalkBounded /\ <> (walker.returned # "no")

\* a walk that returned a tree of three modules on a graph in which every module
\* has every module among its members
WalkTerminatesWitness ==
    /\ walker.returned = "ModuleInfo"
    /\ Cardinality(walker.tree) = 3
    /\ \A n \in ModuleNames : walker.graph[n] = ModuleNames
    /\ walker.max_depth = 2

\* C27: a publish with dry_run changes nothing under dist/, so a real publish
\* after it gets the build number it would have got without it.
DryRunChangesNothing ==
    (dist.last # None /\ dist.last.dry_run) =>
        /\ dist.builds = dist.last.before
        /\ get_next_build_number(dist.builds)
              = get_next_build_number(dist.last.before)

\* the largest build number among the builds, 0 when there is none
LargestBuild(builds) ==
    IF DOMAIN builds = {} THEN 0
    ELSE CHOOSE n \in DOMAIN builds : \A k \in DOMAIN builds : k <= n

\* C28 as stated: without an explicit build number publish uses 1 when there is
\* no build and the largest build number plus 1 otherwise, so successful
\* publishes get increasing numbers; a publish whose build exists returns no
\* build and leaves the builds as they were.
BuildsNeverOverwritten ==
    dist.last # None =>
        LET l == dist.last
        IN  /\ l.build_number = None => l.number = LargestBuild(l.before) + 1
            /\ (l.build_number = None /\ l.result = "build_dir")
                  => \A k \in DOMAIN l.before : k < l.number
            /\ l.number \in DOMAIN l.before
                  => (l.result = "None" /\ dist.builds = l.before)

\* C28, amended: the same, the last part for a publish that is no dry run; a
\* dry run on an existing build returns its path.
RealBuildsNeverOverwritten ==
    dist.last # None =>
        LET l == dist.last
        IN  /\ l.build_number = None => l.number = LargestBuild(l.before) + 1
            /\ (l.build_number = None /\ l.result = "build_dir")
                  => \A k \in DOMAIN l.before : k < l.number
            /\ (~ l.dry_run /\ l.number \in DOMAIN l.before)
                  => (l.result = "None" /\ dist.builds = l.before)
            /\ (l.dry_run /\ l.number \in DOMAIN l.before /\ dist.sources # {})
                  => l.result = "build_dir"

\* after the builds 1 and 2 were published, a publish of build 1 failed
RealBuildsNeverOverwrittenWitness ==
    /\ dist.last # None
    /\ ~ dist.last.dry_run
    /\ dist.last.build_number = Some(1)
    /\ dist.last.result = "None"
    /\ DOMAIN dist.builds = {1, 2}
    /\ \A n \in {1, 2} : dist.builds[n].files = include_patterns
                            /\ dist.builds[n].info

\* C29: after create() on a DatabaseCreator, whether it returned or raised,
\* every entry name -> id of module_ids and class_ids is a row of that name and
\* id in the store the run wrote; no entry of a rolled-back run is kept.
MapsScopedToRun ==
    outcome # "none" =>
        /\ \A name \in DOMAIN creator.module_ids :
              \E r \in disk.modules :
                  r.name = name /\ r.id = creator.module_ids[name]
        /\ \A name \in DOMAIN creator.class_ids :
              \E r \in disk.classes :
                  r.full_qualified_name = name /\ r.id = creator.class_ids[name]

\* C30: divide_entities returns groups only for num_groups >= 1; for every
\* num_groups <= 0 it raises and returns nothing, so that whatever it returns
\* for a non-empty list holds every entity of the list.
NonPositiveGroupsRaise ==
    ncalls >= 1 =>
        /\ num_groups <= 0 => outcome \notin {"none", "ok"}
        /\ outcome = "ok"
              => UNION {Range(groups[i]) : i \in 1..Len(groups)} = Range(entities)

(***************************************************************************)
(* Properties of export_entities, of main and of the FTS triggers.         *)
(***************************************************************************)
\* the positions of the export at which the record of row r of the given type is
RecordPositions(type, r) ==
    {i \in 1..Len(entities) : entities[i] = EntityOf(type, r)}

\* C7: export_entities returns exactly one record {type, id, name,
\* full_qualified_name} for each row of classes (type CLASS) and each row of
\* functions (type FUNCTION, methods too) and no other record; every CLASS record
\* comes before every FUNCTION record, and the names within one type do not
\* decrease.
ExportContract ==
    outcome = "exit 0" =>
        /\ Len(entities) = Cardinality(disk.classes) + Cardinality(disk.functions)
        /\ \A r \in disk.classes : Cardinality(RecordPositions("CLASS", r)) = 1
        /\ \A r \in disk.functions : Cardinality(RecordPositions("FUNCTION", r)) = 1
        /\ \A i \in 1..Len(entities) :
              /\ DOMAIN entities[i] = {"type", "id", "name", "full_qualified_name"}
              /\ \/ \E r \in disk.classes : entities[i] = EntityOf("CLASS", r)
                 \/ \E r \in disk.functions : entities[i] = EntityOf("FUNCTION", r)
        /\ \A i, j \in 1..Len(entities) :
              i < j =>
                 /\ ~ (entities[i].type = "FUNCTION" /\ entities[j].type = "CLASS")
                 /\ entities[i].type = entities[j].type
                       => TextLeq(entities[i].name, entities[j].name)

\* an export of a store with two classes, a method and two functions of different
\* names, where the order by name is not the order of the ids
ExportContractWitness ==
    /\ outcome = "exit 0"
    /\ Cardinality(disk.classes) >= 2
    /\ \E r \in disk.functions : r.class_id # None
    /\ \E i, j \in 1..Len(entities) :
          /\ i < j
          /\ entities[i].type = "FUNCTION" /\ entities[j].type = "FUNCTION"
          /\ entities[i].name # entities[j].name
          /\ entities[i].id > entities[j].id

FtsConsistent(D) ==
    /\ D.classes_fts = {ClassFtsEntry(r) : r \in D.classes}
    /\ D.functions_fts = {FunctionFtsEntry(r) : r \in D.functions}

\* C10: after any sequence of inserts, updates and deletes on classes and
\* functions, by create() or by a later writer, classes_fts holds exactly the
\* (id, name, full_qualified_name, docstring) of the rows of classes and
\* functions_fts exactly the (id, name, full_qualified_name, docstring,
\* signature_string) of the rows of functions; a search for a token then finds
\* only classes that are in the table.
ShadowConsistency ==
    /\ FtsConsistent(disk)
    /\ \A id \in classes_fts_match(disk, "class") : \E r \in disk.classes : r.id = id

\* what holds of the writers' statements: the indexes are those of the tables as
\* long as no INSERT OR REPLACE has removed a row
PlainStatementsKeepFts == outcome = "plain" => FtsConsistent(disk)

=============================================================================
